---- MODULE Spec2Model ----
(***************************************************************************)
(* Model of the odds retrieval engine of PromptBuilder:                    *)
(* app/core/data_fetcher.py (OddsAPIClient: rate limiting, retry/backoff,  *)
(* response cache, batch fetch, market catalog), app/core/format_adapters  *)
(* (OddsAPIAdapter, AdapterFactory), app/core/prompt_builder.py            *)
(* (calculate_parlay_odds) and app/core/odds_utils.py (find_best_odds).    *)
(*                                                                         *)
(* Time is the wall clock in whole seconds (time.time() / datetime.now()). *)
(* A logical request (get_odds, get_available_sports) runs synchronously;  *)
(* the clock moves only where the code blocks: in time.sleep, in the       *)
(* network call, and between two calls of the caller.                      *)
(***************************************************************************)
EXTENDS Integers, Sequences, FiniteSets, TLC

\* ---------------------------------------------------------------- bounds
MaxRequests == 3      \* cap on _request_count (physical calls of one run)
MaxBatchRequests == 2 \* the same cap in a run of get_games_with_odds calls
MaxClock == 1000      \* the caller stops idling once the clock passes this
MaxRetriesCfg == 3    \* largest MAX_RETRIES the configuration is given
MaxThreadClock == 3   \* the clock of a run of two threads stops here
MaxBetTypes == 2      \* longest list of bet types given to bet_types_to_markets
MaxEvents == 2        \* longest list of event records given to adapt_to_games
MaxLegs == 2          \* longest list of legs given to calculate_parlay_odds
MaxEntries == 2       \* longest list of odds entries given to find_best_odds
MaxOutcomes == 2      \* longest list of outcomes of a market given to _parse_bookmakers

\* ------------------------------------------------------ program constants
RATE_LIMIT_SECONDS == 1
CACHE_DURATION_MINUTES == 15
REQUEST_TIMEOUT == 30

_cache_duration == CACHE_DURATION_MINUTES * 60

SPORT_KEYS ==
    ("NFL" :> "americanfootball_nfl") @@ ("NBA" :> "basketball_nba") @@
    ("WNBA" :> "basketball_wnba") @@ ("MLB" :> "baseball_mlb") @@
    ("NHL" :> "icehockey_nhl") @@ ("NCAAF" :> "americanfootball_ncaaf") @@
    ("NCAAB" :> "basketball_ncaab") @@ ("Soccer" :> "soccer_epl") @@
    ("Premier League" :> "soccer_epl") @@ ("La Liga" :> "soccer_spain_la_liga") @@
    ("Champions League" :> "soccer_uefa_champs_league") @@
    ("MLS" :> "soccer_usa_mls") @@ ("MMA" :> "mma_mixed_martial_arts") @@
    ("UFC" :> "mma_mixed_martial_arts")

\* ------------------------------------------- JSON values (response.json())
JNull == [type |-> "null"]
JStr(s) == [type |-> "str", v |-> s]
\* a number, held as the text str() gives for it
JNum(text) == [type |-> "num", v |-> text]
JList(items) == [type |-> "list", items |-> items]
\* an object: `fields` is a function from its keys to their values
JDict(fields) == [type |-> "dict", fields |-> fields]

\* bool(x)
Truthy(x) ==
    CASE x.type = "null" -> FALSE
      [] x.type = "str" -> x.v # ""
      [] x.type = "num" -> x.v \notin {"0", "0.0", "-0.0"}
      [] x.type = "list" -> Len(x.items) > 0
      [] x.type = "dict" -> DOMAIN x.fields # {}

\* str(x)
PyStr(x) ==
    CASE x.type = "null" -> "None"
      [] x.type \in {"str", "num"} -> x.v
      [] x.type = "list" -> "[...]"
      [] x.type = "dict" -> "{...}"

\* d.get(key, default) of an object d
Get(d, key, default) == IF key \in DOMAIN d.fields THEN d.fields[key] ELSE default

RECURSIVE SeqOfSet(_)
SeqOfSet(S) ==
    IF S = {} THEN <<>>
    ELSE LET x == CHOOSE y \in S : TRUE IN <<x>> \o SeqOfSet(S \ {x})

\* `for x in v`: a list gives its items, a string its characters, an object
\* its keys; anything else is not iterable (TypeError)
IsIterable(v) == v.type \in {"list", "str", "dict"}
Items(v) ==
    CASE v.type = "list" -> v.items
      [] v.type = "str" -> [i \in 1..Len(v.v) |-> JStr(SubSeq(v.v, i, i))]
      [] v.type = "dict" ->
            LET ks == SeqOfSet(DOMAIN v.fields)
            IN [i \in 1..Len(ks) |-> JStr(ks[i])]

\* s.replace(c, r) for a one-character c
RECURSIVE Replace(_, _, _)
Replace(s, c, r) ==
    IF Len(s) = 0 THEN ""
    ELSE (IF SubSeq(s, 1, 1) = c THEN r ELSE SubSeq(s, 1, 1))
         \o Replace(SubSeq(s, 2, Len(s)), c, r)

\* event records as the provider sends them
Quote(name, price) == JDict(("name" :> JStr(name)) @@ ("price" :> JNum(price)))
QuoteAt(name, price, point) ==
    JDict(("name" :> JStr(name)) @@ ("price" :> JNum(price)) @@ ("point" :> JNum(point)))
Market(key, outcomes) == JDict(("key" :> JStr(key)) @@ ("outcomes" :> JList(outcomes)))
Bookmaker(title, markets) ==
    JDict(("title" :> JStr(title)) @@ ("markets" :> JList(markets)))
EventWith(home_team, away_team, commence_time, bookmakers) ==
    JDict(("home_team" :> JStr(home_team)) @@ ("away_team" :> JStr(away_team)) @@
          ("commence_time" :> commence_time) @@ ("bookmakers" :> bookmakers))
Event(home_team, away_team) ==
    EventWith(home_team, away_team, JStr("2024-09-08T17:00:00Z"),
              JList(<<Bookmaker("DraftKings",
                        <<Market("h2h", <<Quote(home_team, "-150"),
                                          Quote(away_team, "130")>>)>>)>>))

\* ------------------------------------------------------------ input sets
\* SportType members the caller asks for: two with a provider key, one
\* (Tennis) without.
ModelSports == {"NFL", "Tennis"}
ModelRegions == {"us"}
ModelMarkets == {"h2h", "h2h,spreads,totals"}
ModelFormats == {"american"}
\* Bodies the provider may answer a 200 with: a list of two events with a
\* record between them that is not an object.
ProviderPayloads == {JList(<<Event("Chiefs", "Ravens"), JStr("bad"),
                             Event("Lakers", "Celtics")>>)}
\* What one physical call can end in: the status of an HTTP answer, a
\* timeout, or any other exception (connection failure, undecodable body).
ProviderAnswers == {"200", "429", "401", "500", "timeout", "connection_error"}
\* Seconds a network call that gets an answer may take.
NetDelays == {0, 1}

None == -1

\* ------------------------------------------------------------- responses
NoError == "None"
MissingKeyError == "API key not configured. Please add ODDS_API_KEY to .env file"
InvalidKeyError == "Invalid API key"
FailedAfterError(n) == "Failed after " \o ToString(n) \o " attempts"
UnsupportedSportError(sport) == "Sport " \o sport \o " not supported"

APIResponse(success, data, error, t) ==
    [success |-> success, data |-> data, error |-> error,
     source |-> "odds_api", timestamp |-> t]

Success(data, t) == APIResponse(TRUE, data, NoError, t)
Failure(error, t) == APIResponse(FALSE, JNull, error, t)

VARIABLES
    config,              \* get_config(): the settings read from the environment
    api_key,             \* self.api_key ("" when ODDS_API_KEY is unset)
    max_retries,         \* self.max_retries
    now,                 \* the wall clock
    _request_count,      \* self._request_count
    _last_request_time,  \* self._last_request_time (None or a time)
    _cache,              \* self._cache: cache_key -> [response, time]
    pc,                  \* where the caller / the request stands
    call,                \* the logical request in progress
    attempt,             \* the loop variable of _make_request
    ret,                 \* the APIResponse the last request returned
    batch,               \* the get_games_with_odds call in progress (log: history)
    phys,                \* history: the physical calls of the current request
    last_sent,           \* history: start of the gateway's last physical call
    gap,                 \* history: time between its last two physical calls
    fetched,             \* history: per key, the last response a fetch returned
    threads,             \* per thread inside get_odds: where it stands, its locals
    libcall,             \* a call of a library function: name, arguments, result
    _adapters            \* AdapterFactory._adapters: name -> adapter class

\* the state of one client and its single caller
client_vars == <<config, api_key, max_retries, now, _request_count, _last_request_time,
                 _cache, pc, call, attempt, ret, batch, phys, last_sent, gap,
                 fetched>>
\* what the single caller of a client leaves alone
other_vars == <<threads, libcall, _adapters>>
vars == <<client_vars, other_vars>>

NoCall == [op |-> "none", sport |-> "", key |-> "", t0 |-> 0]
NoResponse == Failure(NoError, 0)
NoBatch == [active |-> FALSE, sports |-> <<>>, markets |-> "", bet_types |-> <<>>,
            i |-> 0, results |-> <<>>, log |-> <<>>]

\* no thread has entered get_odds
NoThreads == <<>>
\* no library function has been called
NoLibCall == [fn |-> "none", args |-> <<>>, done |-> FALSE, result |-> <<>>]
\* AdapterFactory._adapters as the class is defined
RegisteredAdapters ==
    ("odds_api" :> "OddsAPIAdapter") @@ ("espn_api" :> "ESPNAPIAdapter") @@
    ("web_scraping" :> "WebScrapedDataAdapter") @@ ("custom" :> "CustomAPIAdapter")

\* Config.__init__: ODDS_API_KEY, REQUEST_TIMEOUT, MAX_RETRIES, CACHE_DURATION
Config(odds_api_key, retries, cache_duration) ==
    [odds_api_key |-> odds_api_key, request_timeout |-> REQUEST_TIMEOUT,
     max_retries |-> retries, cache_duration |-> cache_duration]

\* OddsAPIClient(): the client reads its settings from the configuration
Construct_client ==
    /\ api_key = config.odds_api_key
    /\ max_retries = config.max_retries

Init ==
    /\ config \in {Config(k, r, CACHE_DURATION_MINUTES) :
                       k \in {"", "KEY"}, r \in 0..MaxRetriesCfg}
    /\ Construct_client
    /\ now = 1
    /\ _request_count = 0
    /\ _last_request_time = None
    /\ _cache = <<>>
    /\ pc = "idle"
    /\ call = NoCall
    /\ attempt = 0
    /\ ret = NoResponse
    /\ batch = NoBatch
    /\ phys = <<>>
    /\ last_sent = None
    /\ gap = None
    /\ fetched = <<>>
    /\ threads = NoThreads
    /\ libcall = NoLibCall
    /\ _adapters = RegisteredAdapters

\* ------------------------------------------------- market catalog (models.py)
BET_TYPE_TO_API_MARKET ==
    ("moneyline" :> "h2h") @@ ("spread" :> "spreads") @@ ("totals" :> "totals") @@
    ("alternate_spreads" :> "alternate_spreads") @@
    ("alternate_totals" :> "alternate_totals") @@
    ("alternate_team_totals" :> "alternate_team_totals") @@
    ("h2h_3_way" :> "h2h_3_way") @@ ("btts" :> "btts") @@
    ("draw_no_bet" :> "draw_no_bet") @@
    ("h2h_q1" :> "h2h_q1") @@ ("h2h_q2" :> "h2h_q2") @@
    ("h2h_q3" :> "h2h_q3") @@ ("h2h_q4" :> "h2h_q4") @@
    ("spreads_q1" :> "spreads_q1") @@ ("spreads_q2" :> "spreads_q2") @@
    ("spreads_q3" :> "spreads_q3") @@ ("spreads_q4" :> "spreads_q4") @@
    ("totals_q1" :> "totals_q1") @@ ("totals_q2" :> "totals_q2") @@
    ("totals_q3" :> "totals_q3") @@ ("totals_q4" :> "totals_q4") @@
    ("h2h_h1" :> "h2h_h1") @@ ("h2h_h2" :> "h2h_h2") @@
    ("spreads_h1" :> "spreads_h1") @@ ("spreads_h2" :> "spreads_h2") @@
    ("totals_h1" :> "totals_h1") @@ ("totals_h2" :> "totals_h2") @@
    ("h2h_p1" :> "h2h_p1") @@ ("h2h_p2" :> "h2h_p2") @@ ("h2h_p3" :> "h2h_p3") @@
    ("h2h_1st_1_innings" :> "h2h_1st_1_innings") @@
    ("h2h_1st_3_innings" :> "h2h_1st_3_innings") @@
    ("h2h_1st_5_innings" :> "h2h_1st_5_innings") @@
    ("h2h_1st_7_innings" :> "h2h_1st_7_innings") @@
    ("player_pass_yds" :> "player_pass_yds") @@
    ("player_pass_tds" :> "player_pass_tds") @@
    ("player_rush_yds" :> "player_rush_yds") @@
    ("player_rush_tds" :> "player_rush_tds") @@
    ("player_receptions" :> "player_receptions") @@
    ("player_reception_yds" :> "player_reception_yds") @@
    ("player_anytime_td" :> "player_anytime_td") @@
    ("player_points" :> "player_points") @@
    ("player_rebounds" :> "player_rebounds") @@
    ("player_assists" :> "player_assists") @@
    ("player_threes" :> "player_threes") @@
    ("player_blocks" :> "player_blocks") @@
    ("player_steals" :> "player_steals") @@
    ("player_double_double" :> "player_double_double") @@
    ("player_triple_double" :> "player_triple_double") @@
    ("batter_home_runs" :> "batter_home_runs") @@
    ("batter_hits" :> "batter_hits") @@
    ("batter_total_bases" :> "batter_total_bases") @@
    ("batter_rbis" :> "batter_rbis") @@
    ("pitcher_strikeouts" :> "pitcher_strikeouts") @@
    ("pitcher_hits_allowed" :> "pitcher_hits_allowed") @@
    ("pitcher_earned_runs" :> "pitcher_earned_runs") @@
    ("player_goals" :> "player_goals") @@
    ("player_anytime_goal_scorer" :> "player_anytime_goal_scorer") @@
    ("player_shots_on_goal" :> "player_shots_on_goal")

\* str.startswith and the `in` test of two strings
StartsWith(s, p) == Len(s) >= Len(p) /\ SubSeq(s, 1, Len(p)) = p
StartsWithAny(s, ps) == \E p \in ps : StartsWith(s, p)
Contains(s, p) ==
    \E i \in 1..(Len(s) - Len(p) + 1) : SubSeq(s, i, i + Len(p) - 1) = p

football_sports == {"NFL", "NCAAF"}
basketball_sports == {"NBA", "WNBA", "NCAAB"}
baseball_sports == {"MLB"}
hockey_sports == {"NHL"}
soccer_sports == {"Soccer", "Premier League", "La Liga", "Champions League", "MLS"}

\* faulty variant of _is_market_valid_for_sport: every market for every sport
_is_market_valid_for_sport_any(market, sport) == TRUE

_is_market_valid_for_sport(market, sport) ==
    IF market \in {"h2h", "spreads", "totals"} THEN TRUE
    ELSE IF market \in {"alternate_spreads", "alternate_totals",
                        "alternate_team_totals"} THEN TRUE
    ELSE IF market \in {"h2h_3_way", "btts", "draw_no_bet"}
        THEN sport \in soccer_sports
    ELSE IF StartsWithAny(market, {"h2h_q", "spreads_q", "totals_q"})
        THEN sport \in (football_sports \cup basketball_sports)
    ELSE IF StartsWithAny(market, {"h2h_h", "spreads_h", "totals_h"})
        THEN sport \notin soccer_sports
    ELSE IF StartsWith(market, "h2h_p") \/ market \in {"h2h_p1", "h2h_p2", "h2h_p3"}
        THEN sport \in hockey_sports
    ELSE IF Contains(market, "innings") THEN sport \in baseball_sports
    ELSE IF market \in {"player_pass_yds", "player_pass_tds", "player_rush_yds",
                        "player_rush_tds", "player_receptions",
                        "player_reception_yds", "player_anytime_td"}
        THEN sport \in football_sports
    ELSE IF market \in {"player_points", "player_rebounds", "player_assists",
                        "player_threes", "player_blocks", "player_steals",
                        "player_double_double", "player_triple_double"}
        THEN sport \in basketball_sports
    ELSE IF market \in {"batter_home_runs", "batter_hits", "batter_total_bases",
                        "batter_rbis", "pitcher_strikeouts",
                        "pitcher_hits_allowed", "pitcher_earned_runs"}
        THEN sport \in baseball_sports
    ELSE IF market \in {"player_goals", "player_anytime_goal_scorer",
                        "player_shots_on_goal"}
        THEN sport \in hockey_sports
    ELSE TRUE

client_side_types == {"parlay", "teaser", "live", "over_under"}
NoSport == ""

InSeq(x, s) == \E i \in 1..Len(s) : s[i] = x

\* the loop of bet_types_to_markets: the list `markets` after bet_types[1..n]
RECURSIVE MarketList(_, _, _)
MarketList(bet_types, sport, n) ==
    IF n = 0 THEN <<>>
    ELSE LET markets == MarketList(bet_types, sport, n - 1)
             bet_type == bet_types[n]
         IN IF bet_type \in client_side_types THEN markets
            ELSE IF bet_type \notin DOMAIN BET_TYPE_TO_API_MARKET THEN markets
            ELSE LET api_market == BET_TYPE_TO_API_MARKET[bet_type]
                 IN IF InSeq(api_market, markets) THEN markets
                    ELSE IF sport # NoSport
                            /\ ~_is_market_valid_for_sport(api_market, sport)
                         THEN markets
                    ELSE Append(markets, api_market)

\* ",".join(markets)
RECURSIVE JoinComma(_)
JoinComma(s) ==
    IF Len(s) = 0 THEN ""
    ELSE IF Len(s) = 1 THEN s[1]
    ELSE s[1] \o "," \o JoinComma(Tail(s))

\* faulty variant of bet_types_to_markets: no default for an empty list
bet_types_to_markets_no_default(bet_types, sport) ==
    JoinComma(MarketList(bet_types, sport, Len(bet_types)))

bet_types_to_markets(bet_types, sport) ==
    LET markets == MarketList(bet_types, sport, Len(bet_types))
    IN IF Len(markets) > 0 THEN JoinComma(markets) ELSE "h2h,spreads,totals"

\* ------------------------------------------------ adapter (format_adapters.py)
\* OddsAPIAdapter.MARKET_TO_BET_TYPE: the catalog read the other way
MARKET_TO_BET_TYPE ==
    [m \in {BET_TYPE_TO_API_MARKET[b] : b \in DOMAIN BET_TYPE_TO_API_MARKET} |->
        CHOOSE b \in DOMAIN BET_TYPE_TO_API_MARKET : BET_TYPE_TO_API_MARKET[b] = m]

\* what a parsing step gives: a value, or an exception that leaves it
Raised == [raised |-> TRUE, value |-> <<>>]
Value(v) == [raised |-> FALSE, value |-> v]

\* Optional[str] = None
NoLine == <<>>
OddsData(sportsbook, bet_type, odds, line) ==
    [sportsbook |-> sportsbook, bet_type |-> bet_type, odds |-> odds,
     odds_format |-> "american", line |-> line]

\* the try block of one outcome: the OddsData appended, or nothing when
\* building it raises (an outcome that is not an object, a sportsbook title
\* that is not a string)
ParseOutcome(outcome, sportsbook, bet_type) ==
    IF outcome.type # "dict" \/ sportsbook.type # "str" THEN <<>>
    ELSE LET price == Get(outcome, "price", JStr("N/A"))
             point == Get(outcome, "point", JNull)
         IN <<OddsData(sportsbook.v, bet_type, PyStr(price),
                       IF Truthy(point) THEN <<PyStr(point)>> ELSE NoLine)>>

RECURSIVE OutcomesLoop(_, _, _)
OutcomesLoop(outcomes, sportsbook, bet_type) ==
    IF Len(outcomes) = 0 THEN <<>>
    ELSE ParseOutcome(Head(outcomes), sportsbook, bet_type)
         \o OutcomesLoop(Tail(outcomes), sportsbook, bet_type)

\* self.MARKET_TO_BET_TYPE.get(market_key, BetType.MONEYLINE)
BetTypeOf(market_key) ==
    IF market_key.type = "str" /\ market_key.v \in DOMAIN MARKET_TO_BET_TYPE
    THEN MARKET_TO_BET_TYPE[market_key.v] ELSE "moneyline"

\* the body of `for market in markets`
ParseMarket(market, sportsbook) ==
    IF market.type # "dict" THEN Raised
    ELSE LET market_key == Get(market, "key", JNull)
             outcomes == Get(market, "outcomes", JList(<<>>))
         IN IF market_key.type \in {"list", "dict"} THEN Raised
            ELSE IF ~IsIterable(outcomes) THEN Raised
            ELSE Value(OutcomesLoop(Items(outcomes), sportsbook,
                                    BetTypeOf(market_key)))

RECURSIVE MarketsLoop(_, _)
MarketsLoop(markets, sportsbook) ==
    IF Len(markets) = 0 THEN Value(<<>>)
    ELSE LET first == ParseMarket(Head(markets), sportsbook)
             rest == MarketsLoop(Tail(markets), sportsbook)
         IN IF first.raised \/ rest.raised THEN Raised
            ELSE Value(first.value \o rest.value)

\* the body of `for bookmaker in bookmakers`
ParseBookmaker(bookmaker) ==
    IF bookmaker.type # "dict" THEN Raised
    ELSE LET sportsbook == Get(bookmaker, "title", JStr("Unknown"))
             markets == Get(bookmaker, "markets", JList(<<>>))
         IN IF ~IsIterable(markets) THEN Raised
            ELSE MarketsLoop(Items(markets), sportsbook)

RECURSIVE BookmakersLoop(_)
BookmakersLoop(bookmakers) ==
    IF Len(bookmakers) = 0 THEN Value(<<>>)
    ELSE LET first == ParseBookmaker(Head(bookmakers))
             rest == BookmakersLoop(Tail(bookmakers))
         IN IF first.raised \/ rest.raised THEN Raised
            ELSE Value(first.value \o rest.value)

_parse_bookmakers(bookmakers) ==
    IF ~IsIterable(bookmakers) THEN Raised
    ELSE BookmakersLoop(Items(bookmakers))

\* datetime.fromisoformat accepts YYYY-MM-DD, YYYY-MM-DDTHH:MM:SS and
\* YYYY-MM-DDTHH:MM:SS+HH:MM
Digits == {"0", "1", "2", "3", "4", "5", "6", "7", "8", "9"}
DigitsAt(s, I) == \A i \in I : SubSeq(s, i, i) \in Digits
IsIsoFormat(s) ==
    /\ Len(s) \in {10, 19, 25}
    /\ DigitsAt(s, {1, 2, 3, 4, 6, 7, 9, 10})
    /\ SubSeq(s, 5, 5) = "-" /\ SubSeq(s, 8, 8) = "-"
    /\ (Len(s) >= 19) =>
          /\ DigitsAt(s, {12, 13, 15, 16, 18, 19})
          /\ SubSeq(s, 14, 14) = ":" /\ SubSeq(s, 17, 17) = ":"
    /\ (Len(s) = 25) =>
          /\ SubSeq(s, 20, 20) \in {"+", "-"}
          /\ DigitsAt(s, {21, 22, 24, 25})
          /\ SubSeq(s, 23, 23) = ":"

\* Optional[datetime] = None
NoTime == <<>>
Game(sport, home_team, away_team, game_time, odds) ==
    [sport |-> sport, home_team |-> home_team, away_team |-> away_team,
     game_time |-> game_time, odds |-> odds]

\* _parse_event of one event record: <<the Game>>, or <<>> (None) when
\* anything in its try block raises: event.get on a record that is not an
\* object, .replace / fromisoformat on the start time, _parse_bookmakers, the
\* validation of Game (team names that are not strings)
_parse_event(event, sport) ==
    IF event.type # "dict" THEN <<>>
    ELSE LET home_team == Get(event, "home_team", JStr("Unknown"))
             away_team == Get(event, "away_team", JStr("Unknown"))
             commence_time == Get(event, "commence_time", JNull)
             odds_list == _parse_bookmakers(Get(event, "bookmakers", JList(<<>>)))
         IN IF Truthy(commence_time) /\ commence_time.type # "str" THEN <<>>
            ELSE IF Truthy(commence_time)
                    /\ ~IsIsoFormat(Replace(commence_time.v, "Z", "+00:00"))
                 THEN <<>>
            ELSE IF odds_list.raised THEN <<>>
            ELSE IF home_team.type # "str" \/ away_team.type # "str" THEN <<>>
            ELSE <<Game(sport, home_team.v, away_team.v,
                        IF Truthy(commence_time)
                        THEN <<Replace(commence_time.v, "Z", "+00:00")>>
                        ELSE NoTime,
                        odds_list.value)>>

\* `for event_data in raw_data`: the games of the records that parse
RECURSIVE GamesOf(_, _)
GamesOf(events, sport) ==
    IF Len(events) = 0 THEN <<>>
    ELSE _parse_event(Head(events), sport) \o GamesOf(Tail(events), sport)

\* faulty variant of adapt_to_games: the first record that does not parse
\* ends the loop
RECURSIVE GamesUntilBad(_, _)
GamesUntilBad(events, sport) ==
    IF Len(events) = 0 \/ _parse_event(Head(events), sport) = <<>> THEN <<>>
    ELSE _parse_event(Head(events), sport) \o GamesUntilBad(Tail(events), sport)
adapt_to_games_abort(raw_data, sport) ==
    IF raw_data.type # "list" THEN <<>> ELSE GamesUntilBad(raw_data.items, sport)

adapt_to_games(raw_data, sport) ==
    IF raw_data.type # "list" THEN <<>> ELSE GamesOf(raw_data.items, sport)

parse_odds_to_games(odds_response, sport) ==
    IF ~odds_response.success \/ ~Truthy(odds_response.data) THEN <<>>
    ELSE adapt_to_games(odds_response.data, sport)

\* ------------------------------------------------------- strings, numbers
\* str.strip(): the string without the blanks at its ends
RECURSIVE Strip(_)
Strip(s) ==
    IF Len(s) = 0 THEN s
    ELSE IF SubSeq(s, 1, 1) = " " THEN Strip(SubSeq(s, 2, Len(s)))
    ELSE IF SubSeq(s, Len(s), Len(s)) = " " THEN Strip(SubSeq(s, 1, Len(s) - 1))
    ELSE s

\* every character of s that has a place in `from` replaced by the
\* character of `to` at that place
RECURSIVE MapChars(_, _, _)
MapChars(s, from, to) ==
    IF Len(s) = 0 THEN ""
    ELSE LET c == SubSeq(s, 1, 1)
             places == {i \in 1..Len(from) : SubSeq(from, i, i) = c}
             mapped == IF places = {} THEN c
                       ELSE LET i == CHOOSE j \in places : TRUE
                            IN SubSeq(to, i, i)
         IN mapped \o MapChars(SubSeq(s, 2, Len(s)), from, to)
\* str.lower(), str.upper()
Lower(s) == MapChars(s, "ABCDEFGHIJKLMNOPQRSTUVWXYZ", "abcdefghijklmnopqrstuvwxyz")
Upper(s) == MapChars(s, "abcdefghijklmnopqrstuvwxyz", "ABCDEFGHIJKLMNOPQRSTUVWXYZ")

\* the digits of a signed integer literal, "" when s is none: int(s) and
\* float(s) accept an optional sign before the digits
IsNegative(s) == Len(s) > 0 /\ SubSeq(s, 1, 1) = "-"
Unsigned(s) ==
    IF Len(s) > 0 /\ SubSeq(s, 1, 1) \in {"-", "+"} THEN SubSeq(s, 2, Len(s)) ELSE s
IsInt(s) == Len(Unsigned(s)) > 0 /\ DigitsAt(Unsigned(s), 1..Len(Unsigned(s)))
RECURSIVE Significant(_)
Significant(digits) ==
    IF Len(digits) > 1 /\ SubSeq(digits, 1, 1) = "0"
    THEN Significant(SubSeq(digits, 2, Len(digits))) ELSE digits
RECURSIVE NatOf(_)
NatOf(digits) ==
    IF Len(digits) = 0 THEN 0
    ELSE LET last == SubSeq(digits, Len(digits), Len(digits))
         IN 10 * NatOf(SubSeq(digits, 1, Len(digits) - 1))
            + (CHOOSE n \in 0..9 : ToString(n) = last)
\* int(s) of a literal s
IntOf(s) == IF IsNegative(s) THEN 0 - NatOf(Unsigned(s)) ELSE NatOf(Unsigned(s))

Abs(n) == IF n < 0 THEN 0 - n ELSE n
RECURSIVE GCD(_, _)
GCD(a, b) == IF b = 0 THEN a ELSE GCD(b, a % b)
\* a positive rational n/d in lowest terms
Frac(n, d) == <<n \div GCD(n, d), d \div GCD(n, d)>>
Times(x, y) == Frac(x[1] * y[1], x[2] * y[2])

\* what a library function gives its caller
Returns(v) == [raised |-> "", value |-> v]
Raises(exception) == [raised |-> exception, value |-> <<>>]

\* ------------------------------------- parlay odds (prompt_builder.py)
\* from this many digits on, 100 / abs(odd) is below half the spacing of
\* the doubles next to 1.0 (2^-53), so that 1 + 100 / abs(odd) is 1.0
FloatAbsorbDigits == 19

\* the try block of one leg: <<its decimal odds>>, or <<>> when it raises
\* (ValueError of int(), ZeroDivisionError of 100 / abs(0))
LegDecimal(odd_str) ==
    LET text == Replace(Strip(odd_str), "+", "")
    IN IF ~IsInt(text) THEN <<>>
       ELSE IF IsNegative(text)
               /\ Len(Significant(Unsigned(text))) >= FloatAbsorbDigits
            THEN <<Frac(1, 1)>>
       ELSE LET odd == IntOf(text)
            IN IF odd > 0 THEN <<Frac(100 + odd, 100)>>
               ELSE IF odd = 0 THEN <<>>
               ELSE <<Frac(Abs(odd) + 100, Abs(odd))>>

\* the list decimal_odds after the loop over selections
RECURSIVE DecimalOdds(_)
DecimalOdds(selections) ==
    IF Len(selections) = 0 THEN <<>>
    ELSE LegDecimal(Head(selections)) \o DecimalOdds(Tail(selections))

\* combined_decimal, the product of the legs
RECURSIVE Product(_)
Product(decimal_odds) ==
    IF Len(decimal_odds) = 0 THEN Frac(1, 1)
    ELSE Times(Head(decimal_odds), Product(Tail(decimal_odds)))

\* int(n / d) of a positive quotient: the fraction is cut off
ToAmerican(n, d) == n \div d

calculate_parlay_odds(selections) ==
    IF Len(selections) = 0 THEN Returns("+100")
    ELSE LET decimal_odds == DecimalOdds(selections)
             combined_decimal == Product(decimal_odds)
             n == combined_decimal[1]
             d == combined_decimal[2]
         IN IF Len(decimal_odds) = 0 THEN Returns("+100")
            ELSE IF n >= 2 * d
                 THEN Returns("+" \o ToString(ToAmerican(100 * (n - d), d)))
            ELSE IF n = d THEN Raises("ZeroDivisionError")
            ELSE Returns(ToString(0 - ToAmerican(100 * d, n - d)))

\* --------------------------------------------- best odds (odds_utils.py)
\* float(s) accepts a signed literal with or without decimals (here: at
\* most two); its value is held in hundredths
DotsOf(s) == {i \in 1..Len(s) : SubSeq(s, i, i) = "."}
IsFloat(s) ==
    \/ IsInt(s)
    \/ \E i \in DotsOf(s) :
          /\ IsInt(SubSeq(s, 1, i - 1))
          /\ Len(s) - i \in {1, 2}
          /\ DigitsAt(s, (i + 1)..Len(s))
Hundredths(s) ==
    IF IsInt(s) THEN 100 * IntOf(s)
    ELSE LET i == CHOOSE j \in DotsOf(s) : TRUE
             whole == 100 * NatOf(Unsigned(SubSeq(s, 1, i - 1)))
             decimals == SubSeq(s, i + 1, Len(s))
             part == IF Len(decimals) = 1 THEN 10 * NatOf(decimals)
                     ELSE NatOf(decimals)
         IN IF IsNegative(s) THEN 0 - (whole + part) ELSE whole + part

\* calculate_odds_value, in hundredths: 100.0 for EVEN / EV, float() of the
\* cleaned text, 0.0 when float() raises ValueError
calculate_odds_value(odds) ==
    LET odds_str == Upper(Strip(odds))
    IN IF odds_str \in {"EVEN", "EV"} THEN 100 * 100
       ELSE IF IsFloat(Replace(odds_str, "+", ""))
            THEN Hundredths(Replace(odds_str, "+", ""))
       ELSE 0

\* calculate_implied_probability: round(probability, 2) in hundredths of a
\* percent, <<>> for None. calculate_odds_value raises nothing and
\* odds_value + 100 is never 0 on the branch that divides by it, so the
\* except branch is not entered.
calculate_implied_probability(odds) ==
    LET odds_value == calculate_odds_value(odds)
        round(n, d) == (2 * n + d) \div (2 * d)
        probability ==
            IF odds_value >= 0
            THEN round(100 * 100 * 100 * 100, odds_value + 100 * 100)
            ELSE round(Abs(odds_value) * 100 * 100, Abs(odds_value) + 100 * 100)
    IN Returns(<<probability>>)

\* max(..., key) and min(..., key) give the first of the entries that are
\* best: the least of their indices
FirstIndex(indices) == CHOOSE i \in indices : \A j \in indices : i <= j

\* faulty variant of find_best_odds: the smallest signed value for
\* maximize = False
find_best_odds_signed(odds_list, maximize) ==
    IF Len(odds_list) = 0 THEN Returns(<<>>)
    ELSE LET value(i) == calculate_odds_value(odds_list[i].odds)
             IsMax(i) == \A j \in 1..Len(odds_list) : value(j) <= value(i)
             IsMin(i) == \A j \in 1..Len(odds_list) : value(i) <= value(j)
             best == {i \in 1..Len(odds_list) : IF maximize THEN IsMax(i) ELSE IsMin(i)}
         IN Returns(<<odds_list[FirstIndex(best)]>>)

\* the result is <<the entry>>, or <<>> for None
find_best_odds(odds_list, maximize) ==
    IF Len(odds_list) = 0 THEN Returns(<<>>)
    ELSE LET value(i) == calculate_odds_value(odds_list[i].odds)
             IsMax(i) == \A j \in 1..Len(odds_list) : value(j) <= value(i)
             IsMin(i) == \A j \in 1..Len(odds_list) : Abs(value(i)) <= Abs(value(j))
             best == {i \in 1..Len(odds_list) : IF maximize THEN IsMax(i) ELSE IsMin(i)}
         IN Returns(<<odds_list[FirstIndex(best)]>>)

\* group_odds_by_bet_type: the odds of a game per bet type, in their order
group_odds_by_bet_type(game) ==
    [bet_type \in {game.odds[i].bet_type : i \in 1..Len(game.odds)} |->
        LET OfType(odd) == odd.bet_type = bet_type
        IN SelectSeq(game.odds, OfType)]

\* get_best_odds_per_bet_type: find_best_odds(odds_list, maximize=True) of
\* every group (a group is never empty, its best never None)
get_best_odds_per_bet_type(game) ==
    LET grouped == group_odds_by_bet_type(game)
    IN Returns([bet_type \in DOMAIN grouped |->
                   find_best_odds(grouped[bet_type], TRUE).value[1]])

\* ----------------------------------- ESPNAPIAdapter (format_adapters.py)
\* s.split(c) for a one-character c: the parts between all its occurrences
RECURSIVE Split(_, _)
Split(s, c) ==
    LET at == {i \in 1..Len(s) : SubSeq(s, i, i) = c}
    IN IF at = {} THEN <<s>>
       ELSE LET i == CHOOSE j \in at : \A k \in at : j <= k
            IN <<SubSeq(s, 1, i - 1)>> \o Split(SubSeq(s, i + 1, Len(s)), c)

\* _parse_team_stats: the TeamStats of a competitor (team name, wins,
\* losses; <<>> for None). wins is assigned before int(parts[1]) is tried;
\* a summary that is not a string has no split (AttributeError).
_parse_team_stats(competitor) ==
    LET team_name == Get(Get(competitor, "team", JDict(<<>>)), "displayName",
                         JStr("Unknown"))
        records == Get(competitor, "records", JNull)
        record == IF Truthy(records) THEN records.items[1] ELSE JDict(<<>>)
        summary == Get(record, "summary", JStr("0-0"))
        parts == Split(summary.v, "-")
        counted == Truthy(record) /\ Len(parts) >= 2 /\ IsInt(parts[1])
    IN IF Truthy(record) /\ summary.type # "str" THEN Raises("AttributeError")
       ELSE Returns([team_name |-> team_name.v,
                     wins |-> IF counted THEN <<IntOf(parts[1])>> ELSE <<>>,
                     losses |-> IF counted /\ IsInt(parts[2])
                                THEN <<IntOf(parts[2])>> ELSE <<>>])

\* ------------------------------------- AdapterFactory (format_adapters.py)
\* the adapter classes of the module, and a subclass of DataAdapter a user
\* of the factory has written
DataAdapterClasses ==
    {"OddsAPIAdapter", "ESPNAPIAdapter", "WebScrapedDataAdapter",
     "CustomAPIAdapter", "MyAdapter"}
\* classes that do not inherit from DataAdapter
OtherClasses == {"dict"}

\* the keyword arguments __init__ of a class requires (no class of the
\* module takes optional ones): CustomAPIAdapter.__init__(self, mapping_config)
InitParams(adapter_class) ==
    IF adapter_class = "CustomAPIAdapter" THEN {"mapping_config"} ELSE {}

\* adapter_class(**kwargs): an instance (named by its class), or the
\* TypeError of a missing or an unexpected argument
Construct(adapter_class, kwargs) ==
    IF kwargs = InitParams(adapter_class) THEN Returns(adapter_class)
    ELSE Raises("TypeError")

get_adapter(source_type, kwargs) ==
    LET name == Lower(source_type)
        adapter_class == IF name \in DOMAIN _adapters THEN _adapters[name]
                         ELSE "CustomAPIAdapter"
    IN Construct(adapter_class, kwargs)

\* faulty variant of register_adapter: the issubclass check dropped
register_adapter_unchecked(name, adapter_class) == Returns(<<>>)

\* register_adapter: what it gives its caller; issubclass raises TypeError
\* for an argument that is not a class
register_adapter(name, adapter_class) ==
    IF adapter_class \notin DataAdapterClasses \cup OtherClasses
    THEN Raises("TypeError")
    ELSE IF adapter_class \notin DataAdapterClasses THEN Raises("ValueError")
    ELSE Returns(<<>>)

\* --------------------------------------------------- OddsAPIClient helpers
\* f"{sport_key}:{regions}:{markets}:{odds_format}"
cache_key(sport_key, regions, markets, odds_format) ==
    sport_key \o ":" \o regions \o ":" \o markets \o ":" \o odds_format

\* faulty variants of CacheFresh (sensitivity of the cache properties): the
\* TTL taken in seconds; the comparison inclusive
CacheFresh_seconds(age) == age < CACHE_DURATION_MINUTES
CacheFresh_inclusive(age) == age <= _cache_duration

\* `if age < self._cache_duration`
CacheFresh(age) == age < _cache_duration

\* `del self._cache[cache_key]`
Evict(cache, key) == [k \in (DOMAIN cache) \ {key} |-> cache[k]]

\* faulty variant of ShouldCache: every response is stored
ShouldCache_always(response) == TRUE

\* `if response.success` before the store
ShouldCache(response) == response.success

\* faulty variant of ApiKeyMissing: the entry guard dropped
ApiKeyMissing_unchecked == FALSE

\* `if not self.api_key`
ApiKeyMissing == api_key = ""

\* the sleep of the rate limiter at the head of _make_request: 0 when it
\* does not sleep
RateLimitSleep ==
    IF _last_request_time # None /\ _last_request_time # 0
    THEN LET elapsed == now - _last_request_time
         IN IF elapsed < RATE_LIMIT_SECONDS
            THEN RATE_LIMIT_SECONDS - elapsed ELSE 0
    ELSE 0

\* faulty variant of BackoffSeconds: a linear backoff
BackoffSeconds_linear(a) == 2 * a

\* `time.sleep(2 ** attempt)`
BackoffSeconds(a) == 2 ^ a

\* faulty variants of Outcome: a 401 handled as any other HTTP error; the catch-all
\* branch without its break
Outcome_401_generic(answer) ==
    CASE answer = "200" -> "return_success"
      [] answer = "429" -> "backoff"
      [] answer = "connection_error" -> "break"
      [] OTHER -> "continue"
Outcome_no_break(answer) ==
    CASE answer = "200" -> "return_success"
      [] answer = "429" -> "backoff"
      [] answer = "401" -> "return_invalid_key"
      [] OTHER -> "continue"

\* what the try/except of one attempt does with the outcome of the call
Outcome(answer) ==
    CASE answer = "200" -> "return_success"
      [] answer = "429" -> "backoff"
      [] answer = "401" -> "return_invalid_key"
      [] answer = "timeout" -> "continue"
      [] answer = "connection_error" -> "break"
      [] OTHER -> "continue"

\* faulty variant of MarketsParam: the bet types not filtered by the sport
MarketsParam_unfiltered(bet_types, markets, sport) ==
    IF Len(bet_types) > 0 THEN bet_types_to_markets(bet_types, NoSport)
    ELSE IF markets # "" THEN markets ELSE "h2h,spreads,totals"

\* get_games_with_odds: the markets parameter for one sport
MarketsParam(bet_types, markets, sport) ==
    IF Len(bet_types) > 0 THEN bet_types_to_markets(bet_types, sport)
    ELSE IF markets # "" THEN markets ELSE "h2h,spreads,totals"

\* get_games_with_odds: the entry of `results` for one sport
BatchEntry(odds_response, sport) ==
    IF odds_response.success THEN parse_odds_to_games(odds_response, sport)
    ELSE <<>>

\* faulty variant of NextIndex: a failed sport ends the loop
NextIndex_break(i, odds_response) ==
    IF odds_response.success THEN i + 1 ELSE Len(batch.sports) + 1

\* get_games_with_odds: `for sport in sports` goes on to the next sport
\* whatever the response was
NextIndex(i, odds_response) == i + 1

\* ------------------------------------------------------------------ steps
\* _make_request hands `response` back at time t: get_odds stores a
\* successful one under its key and returns it; get_available_sports
\* returns it as it is.
Deliver(cl, response, cache, t) ==
    /\ _cache' = IF cl.op = "get_odds" /\ ShouldCache(response)
                 THEN (cl.key :> [response |-> response, time |-> t]) @@ cache
                 ELSE cache
    /\ ret' = response
    /\ pc' = "returned"

\* _make_request up to its first blocking point
MakeRequestEntry(cl, cache) ==
    IF ApiKeyMissing
    THEN /\ Deliver(cl, Failure(MissingKeyError, now), cache, now)
         /\ UNCHANGED attempt
    ELSE /\ _cache' = cache
         /\ attempt' = 0
         /\ pc' = IF RateLimitSleep > 0 THEN "rate_wait" ELSE "loop"
         /\ UNCHANGED ret

\* get_odds up to its first blocking point
GetOddsEntry(sport, regions, markets, odds_format) ==
    IF sport \notin DOMAIN SPORT_KEYS
    THEN /\ call' = [op |-> "get_odds", sport |-> sport, key |-> "", t0 |-> now]
         /\ ret' = Failure(UnsupportedSportError(sport), now)
         /\ pc' = "returned"
         /\ UNCHANGED <<_cache, attempt>>
    ELSE LET key == cache_key(SPORT_KEYS[sport], regions, markets, odds_format)
             cl == [op |-> "get_odds", sport |-> sport, key |-> key, t0 |-> now]
         IN /\ call' = cl
            /\ IF key \in DOMAIN _cache /\ CacheFresh(now - _cache[key].time)
               THEN /\ ret' = _cache[key].response
                    /\ pc' = "returned"
                    /\ UNCHANGED <<_cache, attempt>>
               ELSE MakeRequestEntry(cl, IF key \in DOMAIN _cache
                                         THEN Evict(_cache, key) ELSE _cache)

\* history: what a fetch returned, kept per cache key
Remember ==
    IF call.op = "get_odds" /\ ret.success /\ Len(phys) > 0
    THEN (call.key :> [response |-> ret, time |-> now, calls |-> Len(phys)]) @@ fetched
    ELSE fetched

\* the caller lets time pass between two calls
Advance(d) ==
    /\ pc = "idle"
    /\ now + d <= MaxClock
    /\ now' = now + d
    /\ UNCHANGED <<other_vars, config, api_key, max_retries, _request_count, _last_request_time, _cache,
                   pc, call, attempt, ret, batch, phys, last_sent, gap, fetched>>

GetOdds(sport, regions, markets, odds_format) ==
    /\ pc = "idle"
    /\ GetOddsEntry(sport, regions, markets, odds_format)
    /\ phys' = <<>>
    /\ UNCHANGED <<other_vars, config, api_key, max_retries, now, _request_count, _last_request_time,
                   batch, last_sent, gap, fetched>>

GetAvailableSports ==
    /\ pc = "idle"
    /\ LET cl == [op |-> "sports", sport |-> "", key |-> "", t0 |-> now]
       IN /\ call' = cl
          /\ MakeRequestEntry(cl, _cache)
    /\ phys' = <<>>
    /\ UNCHANGED <<other_vars, config, api_key, max_retries, now, _request_count, _last_request_time,
                   batch, last_sent, gap, fetched>>

\* time.sleep(RATE_LIMIT_SECONDS - elapsed)
RateWait ==
    /\ pc = "rate_wait"
    /\ now' = now + RateLimitSleep
    /\ pc' = "loop"
    /\ UNCHANGED <<other_vars, config, api_key, max_retries, _request_count, _last_request_time, _cache,
                   call, attempt, ret, batch, phys, last_sent, gap, fetched>>

RequestBudget == IF batch.active THEN MaxBatchRequests ELSE MaxRequests

\* the head of `for attempt in range(self.max_retries)`: the next physical
\* call starts, or the loop is exhausted and the generic failure is returned
Attempt ==
    /\ pc = "loop"
    /\ IF attempt < max_retries
       THEN /\ _request_count < RequestBudget
            /\ _last_request_time' = now
            /\ _request_count' = _request_count + 1
            /\ pc' = "inflight"
            /\ phys' = Append(phys, [sent |-> now, got |-> None, answer |-> "pending"])
            /\ gap' = IF last_sent = None THEN None ELSE now - last_sent
            /\ last_sent' = now
            /\ UNCHANGED <<ret, _cache>>
       ELSE /\ Deliver(call, Failure(FailedAfterError(max_retries), now), _cache, now)
            /\ UNCHANGED <<_last_request_time, _request_count, phys, gap, last_sent>>
    /\ UNCHANGED <<other_vars, config, api_key, max_retries, now, call, attempt, batch, fetched>>

\* requests.get ends after d seconds with `answer` (and body `data`)
Respond(answer, data, d) ==
    /\ pc = "inflight"
    /\ now' = now + d
    /\ phys' = [phys EXCEPT ![Len(phys)] =
                   [sent |-> @.sent, got |-> now + d, answer |-> answer]]
    /\ LET o == Outcome(answer)
       IN CASE o = "return_success" ->
                  /\ Deliver(call, Success(data, now + d), _cache, now + d)
                  /\ UNCHANGED attempt
            [] o = "return_invalid_key" ->
                  /\ Deliver(call, Failure(InvalidKeyError, now + d), _cache, now + d)
                  /\ UNCHANGED attempt
            [] o = "backoff" ->
                  /\ pc' = "backoff"
                  /\ UNCHANGED <<attempt, ret, _cache>>
            [] o = "break" ->
                  /\ Deliver(call, Failure(FailedAfterError(max_retries), now + d),
                             _cache, now + d)
                  /\ UNCHANGED attempt
            [] OTHER ->
                  /\ attempt' = attempt + 1
                  /\ pc' = "loop"
                  /\ UNCHANGED <<ret, _cache>>
    /\ UNCHANGED <<other_vars, config, api_key, max_retries, _request_count, _last_request_time,
                   call, batch, last_sent, gap, fetched>>

\* faulty variant of Backoff: a 429 does not use up a turn of the loop
Backoff_same_turn ==
    /\ pc = "backoff"
    /\ now' = now + BackoffSeconds(attempt)
    /\ pc' = "loop"
    /\ UNCHANGED <<other_vars, config, api_key, max_retries, _request_count, _last_request_time, _cache,
                   call, attempt, ret, batch, phys, last_sent, gap, fetched>>

\* time.sleep(2 ** attempt) after a 429, then the next turn of the loop
Backoff ==
    /\ pc = "backoff"
    /\ now' = now + BackoffSeconds(attempt)
    /\ attempt' = attempt + 1
    /\ pc' = "loop"
    /\ UNCHANGED <<other_vars, config, api_key, max_retries, _request_count, _last_request_time, _cache,
                   call, ret, batch, phys, last_sent, gap, fetched>>

\* a direct call of get_odds / get_available_sports returns to the caller
Return ==
    /\ pc = "returned"
    /\ ~batch.active
    /\ pc' = "idle"
    /\ fetched' = Remember
    /\ call' = NoCall
    /\ ret' = NoResponse
    /\ phys' = <<>>
    /\ attempt' = 0
    /\ UNCHANGED <<other_vars, config, api_key, max_retries, now, _request_count, _last_request_time,
                   _cache, batch, last_sent, gap>>

GetGamesWithOdds(sports, markets, bet_types) ==
    /\ pc = "idle"
    /\ _request_count < MaxBatchRequests
    /\ batch' = [active |-> TRUE, sports |-> sports, markets |-> markets,
                 bet_types |-> bet_types, i |-> 1, results |-> <<>>,
                 log |-> <<>>]
    /\ pc' = "batch_loop"
    /\ UNCHANGED <<other_vars, config, api_key, max_retries, now, _request_count, _last_request_time,
                   _cache, call, attempt, ret, phys, last_sent, gap, fetched>>

\* `for sport in sports`: the get_odds of the next sport
BatchFetch ==
    /\ pc = "batch_loop"
    /\ batch.i <= Len(batch.sports)
    /\ LET sport == batch.sports[batch.i]
       IN GetOddsEntry(sport, "us",
                       MarketsParam(batch.bet_types, batch.markets, sport), "american")
    /\ phys' = <<>>
    /\ UNCHANGED <<other_vars, config, api_key, max_retries, now, _request_count, _last_request_time,
                   batch, last_sent, gap, fetched>>

\* the get_odds of one sport has returned: its entry of `results`
BatchCollect ==
    /\ pc = "returned"
    /\ batch.active
    /\ LET sport == batch.sports[batch.i]
       IN batch' = [batch EXCEPT
                       !.results = (sport :> BatchEntry(ret, sport)) @@ @,
                       !.i = NextIndex(@, ret),
                       !.log = Append(@, [sport |-> sport, response |-> ret,
                                          calls |-> Len(phys)])]
    /\ pc' = "batch_loop"
    /\ fetched' = Remember
    /\ call' = NoCall
    /\ ret' = NoResponse
    /\ phys' = <<>>
    /\ attempt' = 0
    /\ UNCHANGED <<other_vars, config, api_key, max_retries, now, _request_count, _last_request_time,
                   _cache, last_sent, gap>>

\* `return results`
BatchReturn ==
    /\ pc = "batch_loop"
    /\ batch.i > Len(batch.sports)
    /\ pc' = "batch_done"
    /\ UNCHANGED <<other_vars, config, api_key, max_retries, now, _request_count, _last_request_time,
                   _cache, call, attempt, ret, batch, phys, last_sent, gap, fetched>>

\* the caller takes the map and is free again
BatchDone ==
    /\ pc = "batch_done"
    /\ pc' = "idle"
    /\ batch' = NoBatch
    /\ UNCHANGED <<other_vars, config, api_key, max_retries, now, _request_count, _last_request_time,
                   _cache, call, attempt, ret, phys, last_sent, gap, fetched>>

\* ---------------------------------------- two threads on one client
\* get_odds_api_client() hands every caller the same OddsAPIClient; neither
\* it nor the client holds a lock, so two threads inside get_odds interleave
\* between any two statements. A step of a thread is the run of statements
\* up to its next read or write of self._last_request_time.
Threads == {1, 2}
\* the sport each thread asks for: two different cache keys
ThreadSport == (1 :> "NFL") @@ (2 :> "NBA")
ThreadKey(t) ==
    cache_key(SPORT_KEYS[ThreadSport[t]], "us", "h2h,spreads,totals", "american")
IdleThread == [pc |-> "idle", attempt |-> 0, wake |-> 0, ret |-> NoResponse]

\* what a step of a thread leaves alone
thread_fixed == <<config, api_key, max_retries, pc, call, attempt, ret, batch, phys,
                  fetched, libcall, _adapters>>

InitThreads ==
    /\ config \in {Config("KEY", r, CACHE_DURATION_MINUTES) : r \in 1..MaxRetriesCfg}
    /\ Construct_client
    /\ now = 1
    /\ _request_count = 0
    /\ _last_request_time = None
    /\ _cache = <<>>
    /\ pc = "idle"
    /\ call = NoCall
    /\ attempt = 0
    /\ ret = NoResponse
    /\ batch = NoBatch
    /\ phys = <<>>
    /\ last_sent = None
    /\ gap = None
    /\ fetched = <<>>
    /\ threads = [t \in Threads |-> IdleThread]
    /\ libcall = NoLibCall
    /\ _adapters = RegisteredAdapters

\* the threads' clock
Tick ==
    /\ now < MaxThreadClock
    /\ now' = now + 1
    /\ UNCHANGED <<thread_fixed, threads, _request_count, _last_request_time,
                   _cache, last_sent, gap>>

\* get_odds up to the head of _make_request: the cache lookup of its key
ThreadGetOdds(t) ==
    /\ threads[t].pc = "idle"
    /\ LET key == ThreadKey(t)
       IN IF key \in DOMAIN _cache /\ CacheFresh(now - _cache[key].time)
          THEN /\ threads' = [threads EXCEPT ![t].pc = "returned",
                                             ![t].ret = _cache[key].response]
               /\ UNCHANGED _cache
          ELSE /\ _cache' = IF key \in DOMAIN _cache THEN Evict(_cache, key)
                            ELSE _cache
               /\ threads' = [threads EXCEPT
                     ![t].pc = IF ApiKeyMissing THEN "returned" ELSE "rate_limit",
                     ![t].attempt = 0,
                     ![t].ret = IF ApiKeyMissing THEN Failure(MissingKeyError, now)
                                ELSE NoResponse]
    /\ UNCHANGED <<thread_fixed, now, _request_count, _last_request_time,
                   last_sent, gap>>

\* the rate limiter: the read of self._last_request_time and the sleep it
\* decides on
ThreadRateLimit(t) ==
    /\ threads[t].pc = "rate_limit"
    /\ threads' = [threads EXCEPT
          ![t].pc = IF RateLimitSleep > 0 THEN "sleeping" ELSE "loop",
          ![t].wake = now + RateLimitSleep]
    /\ UNCHANGED <<thread_fixed, now, _request_count, _last_request_time, _cache,
                   last_sent, gap>>

\* time.sleep is over (of the rate limiter, or of the backoff after a 429)
ThreadWake(t) ==
    /\ threads[t].pc \in {"sleeping", "backoff"}
    /\ now >= threads[t].wake
    /\ threads' = [threads EXCEPT
          ![t].pc = "loop",
          ![t].attempt = IF threads[t].pc = "backoff" THEN @ + 1 ELSE @]
    /\ UNCHANGED <<thread_fixed, now, _request_count, _last_request_time, _cache,
                   last_sent, gap>>

\* the head of the retry loop: the writes of self._last_request_time and
\* self._request_count and the start of the physical call
ThreadAttempt(t) ==
    /\ threads[t].pc = "loop"
    /\ IF threads[t].attempt < max_retries
       THEN /\ _request_count < MaxRequests
            /\ _last_request_time' = now
            /\ _request_count' = _request_count + 1
            /\ gap' = IF last_sent = None THEN None ELSE now - last_sent
            /\ last_sent' = now
            /\ threads' = [threads EXCEPT ![t].pc = "inflight"]
       ELSE /\ threads' = [threads EXCEPT
                  ![t].pc = "returned",
                  ![t].ret = Failure(FailedAfterError(max_retries), now)]
            /\ UNCHANGED <<_last_request_time, _request_count, gap, last_sent>>
    /\ UNCHANGED <<thread_fixed, now, _cache>>

\* requests.get ends in `answer`; a successful response is stored under the
\* thread's key and returned
ThreadRespond(t, answer, data) ==
    /\ threads[t].pc = "inflight"
    /\ LET o == Outcome(answer)
       IN CASE o = "return_success" ->
                  /\ threads' = [threads EXCEPT ![t].pc = "returned",
                                                ![t].ret = Success(data, now)]
                  /\ _cache' = (ThreadKey(t) :> [response |-> Success(data, now),
                                                 time |-> now]) @@ _cache
            [] o = "return_invalid_key" ->
                  /\ threads' = [threads EXCEPT
                        ![t].pc = "returned",
                        ![t].ret = Failure(InvalidKeyError, now)]
                  /\ UNCHANGED _cache
            [] o = "backoff" ->
                  /\ threads' = [threads EXCEPT
                        ![t].pc = "backoff",
                        ![t].wake = now + BackoffSeconds(threads[t].attempt)]
                  /\ UNCHANGED _cache
            [] o = "break" ->
                  /\ threads' = [threads EXCEPT
                        ![t].pc = "returned",
                        ![t].ret = Failure(FailedAfterError(max_retries), now)]
                  /\ UNCHANGED _cache
            [] OTHER ->
                  /\ threads' = [threads EXCEPT ![t].pc = "loop",
                                                ![t].attempt = @ + 1]
                  /\ UNCHANGED _cache
    /\ UNCHANGED <<thread_fixed, now, _request_count, _last_request_time,
                   last_sent, gap>>

\* the thread's caller has its response
ThreadReturn(t) ==
    /\ threads[t].pc = "returned"
    /\ threads' = [threads EXCEPT ![t] = IdleThread]
    /\ UNCHANGED <<thread_fixed, now, _request_count, _last_request_time, _cache,
                   last_sent, gap>>

\* ------------------------------------------------------- inputs of a run
AdvanceSteps == {_cache_duration - 1, _cache_duration}

BatchSports == {"NFL", "Soccer", "Tennis"}
\* the sports lists given to get_games_with_odds: every list of at most two
\* of them (repeats included) and one of all three
SportLists ==
    UNION {[1..n -> BatchSports] : n \in {0, 1, 2}} \cup {<<"Tennis", "NFL", "Soccer">>}

\* (markets, bet_types) given to get_games_with_odds: neither, a legacy
\* market string, or a list of bet types
BatchArgs == {<<"", <<>>>>, <<"h2h", <<>>>>,
              <<"", <<"moneyline", "h2h_3_way", "parlay">>>>}

\* seconds a physical call may take before it ends in `answer`: an answer
\* arrives at once or a second later, a timeout after the configured
\* request timeout
AnswerDelays(answer) ==
    IF answer = "timeout" THEN {REQUEST_TIMEOUT}
    ELSE IF answer \in {"200", "500"} THEN NetDelays
    ELSE {0}

\* the provider and the waits of a request in progress
RequestSteps ==
    \/ RateWait
    \/ Attempt
    \/ \E answer \in ProviderAnswers :
          \E data \in (IF answer = "200" THEN ProviderPayloads ELSE {<<>>}),
             d \in AnswerDelays(answer) :
             Respond(answer, data, d)
    \/ Backoff

\* a caller of get_odds and get_available_sports
Next ==
    \/ \E d \in AdvanceSteps : Advance(d)
    \/ \E sport \in ModelSports, regions \in ModelRegions,
          markets \in ModelMarkets, odds_format \in ModelFormats :
          GetOdds(sport, regions, markets, odds_format)
    \/ GetAvailableSports
    \/ RequestSteps
    \/ Return

\* a caller of get_games_with_odds
NextBatch ==
    \/ \E d \in AdvanceSteps : Advance(d)
    \/ \E sports \in SportLists, a \in BatchArgs : GetGamesWithOdds(sports, a[1], a[2])
    \/ BatchFetch
    \/ BatchCollect
    \/ BatchReturn
    \/ BatchDone
    \/ RequestSteps

Spec == Init /\ [][Next]_vars

\* the same client when what it waits for ends: time.sleep returns,
\* requests.get returns or times out, the loop goes on
SpecFair == Init /\ [][Next]_vars /\ WF_vars(RequestSteps)

\* a client under a configured CACHE_DURATION: the shipped value or a
\* shorter one
CacheDurations == {CACHE_DURATION_MINUTES, CACHE_DURATION_MINUTES \div 3}
InitConfigured ==
    /\ config \in {Config("KEY", r, m) : r \in 1..MaxRetriesCfg, m \in CacheDurations}
    /\ Construct_client
    /\ now = 1
    /\ _request_count = 0
    /\ _last_request_time = None
    /\ _cache = <<>>
    /\ pc = "idle"
    /\ call = NoCall
    /\ attempt = 0
    /\ ret = NoResponse
    /\ batch = NoBatch
    /\ phys = <<>>
    /\ last_sent = None
    /\ gap = None
    /\ fetched = <<>>
    /\ threads = NoThreads
    /\ libcall = NoLibCall
    /\ _adapters = RegisteredAdapters

SpecConfigured == InitConfigured /\ [][Next]_vars

SpecBatch == Init /\ [][NextBatch]_vars

\* two threads calling get_odds on the shared client
NextThreads ==
    \/ Tick
    \/ \E t \in Threads : ThreadGetOdds(t)
    \/ \E t \in Threads : ThreadRateLimit(t)
    \/ \E t \in Threads : ThreadWake(t)
    \/ \E t \in Threads : ThreadAttempt(t)
    \/ \E t \in Threads, answer \in ProviderAnswers :
          \E data \in (IF answer = "200" THEN ProviderPayloads ELSE {JNull}) :
             ThreadRespond(t, answer, data)
    \/ \E t \in Threads : ThreadReturn(t)

SpecThreads == InitThreads /\ [][NextThreads]_vars

\* ------------------------------------------------------- library calls
\* a call of a library function that has not returned yet
Call(fn, args) == [fn |-> fn, args |-> args, done |-> FALSE, result |-> <<>>]
\* the call in progress is of fn and returns (or raises) `result`
Apply(fn, result) ==
    /\ libcall.fn = fn
    /\ ~libcall.done
    /\ libcall' = [libcall EXCEPT !.done = TRUE, !.result = result]

\* the client while library functions are called: constructed, unused
ClientAtRest ==
    /\ config = Config("KEY", MaxRetriesCfg, CACHE_DURATION_MINUTES)
    /\ Construct_client
    /\ now = 1
    /\ _request_count = 0
    /\ _last_request_time = None
    /\ _cache = <<>>
    /\ pc = "idle"
    /\ call = NoCall
    /\ attempt = 0
    /\ ret = NoResponse
    /\ batch = NoBatch
    /\ phys = <<>>
    /\ last_sent = None
    /\ gap = None
    /\ fetched = <<>>
    /\ threads = NoThreads

\* --- the market catalog
SportTypes ==
    {"NFL", "NBA", "WNBA", "MLB", "NHL", "NCAAF", "NCAAB", "Soccer",
     "Premier League", "La Liga", "Champions League", "MLS", "Tennis", "MMA",
     "UFC", "Boxing", "Golf"}
\* provider market keys: those of the catalog and some it does not know
CatalogMarkets == {BET_TYPE_TO_API_MARKET[b] : b \in DOMAIN BET_TYPE_TO_API_MARKET}
UnknownMarkets == {"outrights", "team_totals", "h2h_lay"}
\* BetType members given to bet_types_to_markets, and its sport argument
ModelBetTypes ==
    {"moneyline", "totals", "over_under", "parlay", "h2h_3_way", "h2h_q1",
     "h2h_h1", "player_points"}
BetTypeLists == UNION {[1..n -> ModelBetTypes] : n \in 0..MaxBetTypes}
MarketSports == {NoSport, "NFL", "NBA", "Soccer", "NHL", "Tennis"}
CatalogCalls ==
    {Call("_is_market_valid_for_sport", <<market, sport>>) :
        market \in CatalogMarkets \cup UnknownMarkets, sport \in SportTypes}
    \cup {Call("bet_types_to_markets", <<bet_types, sport>>) :
            bet_types \in BetTypeLists, sport \in MarketSports}

InitCatalog ==
    /\ ClientAtRest
    /\ _adapters = RegisteredAdapters
    /\ libcall \in CatalogCalls

IsMarketValidForSport ==
    /\ Apply("_is_market_valid_for_sport",
             Returns(_is_market_valid_for_sport(libcall.args[1], libcall.args[2])))
    /\ UNCHANGED <<client_vars, threads, _adapters>>

BetTypesToMarkets ==
    /\ Apply("bet_types_to_markets",
             Returns(bet_types_to_markets(libcall.args[1], libcall.args[2])))
    /\ UNCHANGED <<client_vars, threads, _adapters>>

NextCatalog == IsMarketValidForSport \/ BetTypesToMarkets

SpecCatalog == InitCatalog /\ [][NextCatalog]_vars

\* --- the adapters
SourceTypes == {"odds_api", "ODDS_API", "espn_api", "custom", "unknown", "mine", "Mine"}
KwargSets == {{}, {"mapping_config"}}
RegisterNames == {"mine", "Mine"}
\* what register_adapter is given as adapter_class: a subclass of
\* DataAdapter, another class, an object that is no class
RegisterClasses == {"MyAdapter", "dict", "an instance"}

\* event records: well formed ones, and ones that are malformed or empty in
\* one place
WithTime(commence_time) == EventWith("Bills", "Jets", commence_time, JList(<<>>))
WithBookmakers(bookmakers) ==
    EventWith("Bills", "Jets", JStr("2024-09-08T17:00:00Z"), bookmakers)
EventShapes ==
    {Event("Chiefs", "Ravens"),
     JDict(("home_team" :> JStr("Bills")) @@ ("away_team" :> JStr("Jets"))),
     JStr("bad"),
     JNull,
     WithTime(JStr("tomorrow")),
     WithTime(JNum("1725814800")),
     WithTime(JStr("")),
     WithBookmakers(JNull),
     WithBookmakers(JList(<<JStr("DraftKings")>>)),
     WithBookmakers(JList(<<Bookmaker("FanDuel", <<JStr("h2h")>>)>>)),
     WithBookmakers(JList(<<Bookmaker("FanDuel",
                               <<Market("spreads", <<JStr("Bills"),
                                                     QuoteAt("Jets", "-110", "3.5")>>)>>)>>)),
     WithBookmakers(JDict(<<>>))}
\* outcomes as the provider sends them: a price; a price and a point
\* (a spread, the 0 of a pick'em, a total); no price; a null price
OutcomeShapes ==
    {Quote("Bills", "-150"),
     QuoteAt("Bills", "-110", "-3.5"),
     QuoteAt("Bills", "-110", "0"),
     QuoteAt("Over", "-105", "224.5"),
     JDict("name" :> JStr("Bills")),
     JDict(("name" :> JStr("Bills")) @@ ("price" :> JNull))}
\* bookmaker lists: one bookmaker with one market of every key and every
\* outcome list; two bookmakers, the first with two markets; null
BookmakerLists ==
    {JList(<<Bookmaker("FanDuel", <<Market(key, outcomes)>>)>>) :
        key \in {"h2h", "spreads", "outrights"},
        outcomes \in UNION {[1..n -> OutcomeShapes] : n \in 1..MaxOutcomes}}
    \cup {JList(<<Bookmaker("FanDuel", <<Market("totals", <<o>>),
                                         Market("h2h", <<Quote("Jets", "130")>>)>>),
                  Bookmaker("DraftKings", <<Market("spreads", <<o>>)>>)>>) :
             o \in OutcomeShapes}
    \cup {JNull}
RawDataSet ==
    {JList(events) : events \in UNION {[1..n -> EventShapes] : n \in 0..MaxEvents}}
    \cup {JNull, JDict("message" :> JStr("quota reached"))}
FactoryCalls ==
    {Call("get_adapter", <<source_type, kwargs>>) :
        source_type \in SourceTypes, kwargs \in KwargSets}
    \cup {Call("register_adapter", <<name, adapter_class>>) :
            name \in RegisterNames, adapter_class \in RegisterClasses}
\* competitors of an ESPN event: with a win-loss summary, with a record
\* that has none, with an empty record, without records, with a summary
\* that is a number
Summaries == {"10-5", "0-0", "10-x", "x-5", "10-5-2", "10", ""}
Competitor(record) ==
    JDict(("team" :> JDict("displayName" :> JStr("Bills"))) @@
          ("homeAway" :> JStr("home")) @@ ("records" :> JList(<<record>>)))
Competitors ==
    {Competitor(JDict("summary" :> JStr(summary))) : summary \in Summaries}
    \cup {Competitor(JDict("name" :> JStr("overall"))), Competitor(JDict(<<>>)),
          Competitor(JDict("summary" :> JNum("105"))),
          JDict("homeAway" :> JStr("away"))}
ParseCalls ==
    {Call("_parse_bookmakers", <<bookmakers>>) : bookmakers \in BookmakerLists}
    \cup {Call("_parse_team_stats", <<competitor>>) : competitor \in Competitors}
AdapterCalls ==
    FactoryCalls
    \cup {Call("adapt_to_games", <<raw_data, "NFL">>) : raw_data \in RawDataSet}
    \cup ParseCalls

InitAdapter ==
    /\ ClientAtRest
    /\ _adapters = RegisteredAdapters
    /\ libcall \in AdapterCalls

GetAdapter ==
    /\ Apply("get_adapter", get_adapter(libcall.args[1], libcall.args[2]))
    /\ UNCHANGED <<client_vars, threads, _adapters>>

\* register_adapter: `cls._adapters[name] = adapter_class` unless it raised
RegisterAdapter ==
    /\ Apply("register_adapter", register_adapter(libcall.args[1], libcall.args[2]))
    /\ _adapters' =
          IF register_adapter(libcall.args[1], libcall.args[2]).raised = ""
          THEN (libcall.args[1] :> libcall.args[2]) @@ _adapters
          ELSE _adapters
    /\ UNCHANGED <<client_vars, threads>>

AdaptToGames ==
    /\ Apply("adapt_to_games",
             Returns(adapt_to_games(libcall.args[1], libcall.args[2])))
    /\ UNCHANGED <<client_vars, threads, _adapters>>

\* _parse_bookmakers called by itself: the list it returns, or the error of
\* a list that cannot be walked
ParseBookmakers ==
    /\ Apply("_parse_bookmakers",
             LET parsed == _parse_bookmakers(libcall.args[1])
             IN IF parsed.raised THEN Raises("TypeError") ELSE Returns(parsed.value))
    /\ UNCHANGED <<client_vars, threads, _adapters>>

ParseTeamStats ==
    /\ Apply("_parse_team_stats", _parse_team_stats(libcall.args[1]))
    /\ UNCHANGED <<client_vars, threads, _adapters>>

\* the next call of the factory once a call has returned
NextAdapterCall(c) ==
    /\ libcall.done
    /\ libcall' = c
    /\ UNCHANGED <<client_vars, threads, _adapters>>

NextAdapter ==
    \/ GetAdapter
    \/ RegisterAdapter
    \/ AdaptToGames
    \/ ParseBookmakers
    \/ ParseTeamStats
    \/ \E c \in FactoryCalls : NextAdapterCall(c)

SpecAdapter == InitAdapter /\ [][NextAdapter]_vars

\* --- the odds arithmetic
LegStrings ==
    {"+150", "-200", "-150", "-110", "+100", " +120 ", "abc", "0",
     "-1000000000000000000"}
SelectionLists == UNION {[1..n -> LegStrings] : n \in 0..MaxLegs}
Prices == {"+150", "+120", "-150", "-120", "N/A", "EVEN"}
OddsEntries ==
    {OddsData(sportsbook, "moneyline", price, NoLine) :
        sportsbook \in {"DraftKings", "FanDuel"}, price \in Prices}
\* the odds of a game: two bet types, prices that parse and one that does not
GameOdds ==
    {OddsData("DraftKings", bet_type, price, NoLine) :
        bet_type \in {"moneyline", "spread"}, price \in {"+150", "-150", "N/A"}}
OddsLists == UNION {[1..n -> OddsEntries] : n \in 0..MaxEntries}
OddsCalls ==
    {Call("calculate_parlay_odds", <<selections>>) : selections \in SelectionLists}
    \cup {Call("find_best_odds", <<odds_list, maximize>>) :
            odds_list \in OddsLists, maximize \in BOOLEAN}
    \cup {Call("calculate_implied_probability", <<odds>>) : odds \in Prices}
    \cup {Call("get_best_odds_per_bet_type",
               <<Game("NFL", "Chiefs", "Ravens", NoTime, odds_list)>>) :
            odds_list \in UNION {[1..n -> GameOdds] : n \in 0..MaxEntries}}

InitOdds ==
    /\ ClientAtRest
    /\ _adapters = RegisteredAdapters
    /\ libcall \in OddsCalls

CalculateParlayOdds ==
    /\ Apply("calculate_parlay_odds", calculate_parlay_odds(libcall.args[1]))
    /\ UNCHANGED <<client_vars, threads, _adapters>>

FindBestOdds ==
    /\ Apply("find_best_odds", find_best_odds(libcall.args[1], libcall.args[2]))
    /\ UNCHANGED <<client_vars, threads, _adapters>>

CalculateImpliedProbability ==
    /\ Apply("calculate_implied_probability",
             calculate_implied_probability(libcall.args[1]))
    /\ UNCHANGED <<client_vars, threads, _adapters>>

GetBestOddsPerBetType ==
    /\ Apply("get_best_odds_per_bet_type", get_best_odds_per_bet_type(libcall.args[1]))
    /\ UNCHANGED <<client_vars, threads, _adapters>>

NextOdds ==
    \/ CalculateParlayOdds
    \/ FindBestOdds
    \/ CalculateImpliedProbability
    \/ GetBestOddsPerBetType

SpecOdds == InitOdds /\ [][NextOdds]_vars

\* ================================================================ claims
InRequest == pc \in {"rate_wait", "loop", "inflight", "backoff"}
Returned == pc = "returned"
\* the answers the physical calls of the current request have ended in
Answers == [i \in 1..Len(phys) |-> phys[i].answer]
\* get_odds has returned for a key that an earlier fetch returned a
\* response for, and was called less than the TTL after that
SecondCallWithinTTL ==
    /\ Returned
    /\ call.op = "get_odds"
    /\ call.key \in DOMAIN fetched
    /\ call.t0 - fetched[call.key].time < _cache_duration

\* C1 (as stated): two get_odds calls with the same arguments, the second
\* less than the TTL after the first one's response was stored, make exactly
\* one physical call in total and the second returns the first's response.
C1_ExactlyOneCallInTotal ==
    SecondCallWithinTTL =>
        /\ fetched[call.key].calls + Len(phys) = 1
        /\ ret = fetched[call.key].response

\* C1 (amended): the second call makes no physical call and returns the
\* identical response; the two calls together make the physical calls of the
\* first one alone, which are between 1 and max_retries.
C1_SecondCallServedFromCache ==
    SecondCallWithinTTL =>
        /\ Len(phys) = 0
        /\ ret = fetched[call.key].response
        /\ ret.success
        /\ fetched[call.key].calls \in 1..max_retries

C1_Witness ==
    /\ SecondCallWithinTTL
    /\ call.t0 - fetched[call.key].time = _cache_duration - 1
    /\ fetched[call.key].calls = 2
    /\ Len(phys) = 0
    /\ ret = fetched[call.key].response

\* C2: k < N answers 429 followed by a success make exactly k+1 physical
\* calls: the request gives up on 429s only at the N-th, a success ends it
\* with a successful result, and the call after the i-th 429 starts
\* 2^(i-1) seconds after that answer.
C2_RetryAfter429 ==
    /\ \A i \in 1..Len(phys) :
          (phys[i].answer = "200") =>
              /\ i = Len(phys)
              /\ Returned
              /\ ret.success
    /\ (Returned /\ Len(phys) >= 1 /\ \A i \in 1..Len(phys) : phys[i].answer = "429")
          => Len(phys) = max_retries
    /\ \A i \in 1..(Len(phys) - 1) :
          (phys[i].answer = "429") => phys[i + 1].sent - phys[i].got = 2 ^ (i - 1)

C2_Witness ==
    /\ Returned
    /\ max_retries = 3
    /\ Answers = <<"429", "429", "200">>
    /\ ret.success
    /\ phys[2].sent - phys[1].got = 1
    /\ phys[3].sent - phys[2].got = 2

\* C3: a 401 is the last physical call of its request: the request returns
\* at once the failure "Invalid API key", which is not the exhausted-retries
\* message.
C3_AuthFailureIsFatal ==
    \A i \in 1..Len(phys) :
        (phys[i].answer = "401") =>
            /\ i = Len(phys)
            /\ Returned
            /\ ~ret.success
            /\ ret.error = InvalidKeyError
            /\ ret.error # FailedAfterError(max_retries)

C3_Witness ==
    /\ Returned
    /\ max_retries = 3
    /\ Answers = <<"401">>
    /\ ret.error = InvalidKeyError

\* C4: without an API key no physical call is ever made, the request
\* counter, the last-request time and the cache never change, and every
\* request that reaches _make_request returns the missing-credentials failure.
C4_NoKeyNoCall ==
    (api_key = "") =>
        /\ _request_count = 0
        /\ _last_request_time = None
        /\ _cache = <<>>
        /\ phys = <<>>
        /\ ~InRequest
        /\ (Returned /\ (call.op = "sports" \/ call.sport \in DOMAIN SPORT_KEYS))
              => (~ret.success /\ ret.error = MissingKeyError)

C4_Witness ==
    /\ api_key = ""
    /\ Returned
    /\ call.op = "get_odds"
    /\ call.sport \in DOMAIN SPORT_KEYS
    /\ ret.error = MissingKeyError

\* C5: any two consecutive physical calls of the gateway start at least
\* RATE_LIMIT_SECONDS apart.
C5_MinimumSpacing == gap = None \/ gap >= RATE_LIMIT_SECONDS

C7_ServedOnlyWithinTTL ==
    /\ (Returned /\ call.op = "get_odds" /\ ret.success /\ Len(phys) = 0) =>
          /\ call.key \in DOMAIN fetched
          /\ ret = fetched[call.key].response
          /\ call.t0 - fetched[call.key].time < _cache_duration
    /\ (InRequest /\ call.op = "get_odds") => call.key \notin DOMAIN _cache
    /\ (Returned /\ call.op = "get_odds" /\ ~ret.success) =>
          /\ call.key \notin DOMAIN _cache
          /\ (call.key \in DOMAIN fetched) => ret # fetched[call.key].response

C7_Witness ==
    /\ Returned
    /\ call.op = "get_odds"
    /\ ~ret.success
    /\ Len(phys) >= 1
    /\ call.key \in DOMAIN fetched
    /\ call.t0 - fetched[call.key].time = _cache_duration
    /\ call.key \notin DOMAIN _cache

\* C8 (as stated): a physical call that fails with something other than a
\* 429, a 401 or a timeout (a generic HTTP error such as 500, or any other
\* error) is the last physical call of its request.
C8_OtherErrorsStop ==
    \A i \in 1..Len(phys) :
        (phys[i].answer \in {"500", "connection_error"}) => i = Len(phys)

\* C8 (amended): an error that is neither an HTTP error status nor a
\* timeout ends the request at once with a failure; a generic HTTP error such
\* as 500 does not: the request gives up on it only at the max_retries-th
\* call, and the call after it starts at once, without backoff.
C8_UnexpectedErrorsStop ==
    /\ \A i \in 1..Len(phys) :
          (phys[i].answer = "connection_error") =>
              /\ i = Len(phys)
              /\ Returned
              /\ ~ret.success
    /\ (Returned /\ Len(phys) >= 1 /\ phys[Len(phys)].answer = "500")
          => Len(phys) = max_retries
    /\ \A i \in 1..(Len(phys) - 1) :
          (phys[i].answer = "500") => phys[i + 1].sent = phys[i].got

C8_Witness ==
    /\ Returned
    /\ max_retries = 3
    /\ Answers = <<"500", "connection_error">>
    /\ ~ret.success
    /\ phys[2].sent = phys[1].got

\* C9: a request whose last physical call ended in a timeout or a
\* connection failure returns to the caller only when max_retries physical
\* calls have been made.
C9_TransientErrorsRetried ==
    (Returned /\ Len(phys) >= 1
        /\ phys[Len(phys)].answer \in {"timeout", "connection_error"})
    => Len(phys) = max_retries

\* C10: get_games_with_odds returns a map whose keys are exactly the
\* requested sports; get_odds was called once for every sport of the list, in
\* order, whatever the earlier ones returned; a sport without provider key
\* made no physical call; and the entry of a sport is the empty list when its
\* (last) fetch failed and the games parsed from its payload otherwise.
BatchReturned == pc = "batch_done"
LastOf(sport) ==
    CHOOSE i \in 1..Len(batch.log) :
        /\ batch.log[i].sport = sport
        /\ \A j \in (i + 1)..Len(batch.log) : batch.log[j].sport # sport
C10_BatchCoversEverySport ==
    BatchReturned =>
        /\ DOMAIN batch.results = {batch.sports[i] : i \in 1..Len(batch.sports)}
        /\ Len(batch.log) = Len(batch.sports)
        /\ \A i \in 1..Len(batch.sports) :
              /\ batch.log[i].sport = batch.sports[i]
              /\ (batch.sports[i] \notin DOMAIN SPORT_KEYS) =>
                    (batch.log[i].calls = 0 /\ ~batch.log[i].response.success)
        /\ \A sport \in DOMAIN batch.results :
              LET r == batch.log[LastOf(sport)].response
              IN IF r.success
                 THEN batch.results[sport] = adapt_to_games(r.data, sport)
                 ELSE batch.results[sport] = <<>>

C10_Witness ==
    /\ BatchReturned
    /\ batch.sports = <<"Tennis", "NFL", "Soccer">>
    /\ ~batch.log[2].response.success
    /\ batch.log[2].calls >= 1
    /\ batch.log[3].response.success
    /\ batch.log[3].calls = 1
    /\ Len(batch.results["Soccer"]) = 2
    /\ batch.results["NFL"] = <<>>
    /\ batch.results["Tennis"] = <<>>

\* C11: a missing-key or a 401 failure of one sport's fetch interrupts the
\* whole batch: no physical call is made for the sports after it and
\* get_games_with_odds does not return a normal sport-to-games map.
FatalFailure(response) ==
    ~response.success /\ response.error \in {MissingKeyError, InvalidKeyError}
C11_FatalFailureInterruptsBatch ==
    \A i \in 1..Len(batch.log) :
        FatalFailure(batch.log[i].response) =>
            /\ \A j \in (i + 1)..Len(batch.log) : batch.log[j].calls = 0
            /\ phys = <<>>
            /\ ~BatchReturned

\* C12: two threads inside get_odds on the same client, for different cache
\* keys: any two consecutive physical calls of the client start at least
\* RATE_LIMIT_SECONDS apart, and the two fetches are never interleaved: at
\* most one thread is between its read of the cache and of the last-request
\* time and the return of its fetch.
InFetch(t) ==
    threads[t].pc \in {"rate_limit", "sleeping", "loop", "inflight", "backoff"}
C12_ThreadsShareCadence ==
    /\ gap = None \/ gap >= RATE_LIMIT_SECONDS
    /\ ~(InFetch(1) /\ InFetch(2))

\* the library call of fn has returned
Called(fn) == libcall.fn = fn /\ libcall.done

\* C13: get_adapter never fails: for a source type that, lower-cased, is
\* not a registered name, and no keyword arguments, it returns an instance of
\* CustomAPIAdapter.
C13_UnknownSourceGetsGenericAdapter ==
    (/\ Called("get_adapter")
     /\ Lower(libcall.args[1]) \notin DOMAIN _adapters
     /\ libcall.args[2] = {})
    => (libcall.result.raised = "" /\ libcall.result.value = "CustomAPIAdapter")

\* C14: adapt_to_games of the primary adapter never raises and returns
\* exactly the Games of the well-formed records, in input order: a record
\* that is not an object, has a start time that does not parse, or a
\* bookmaker list that cannot be walked, is skipped and leaves the Games of
\* the other records as they are.
\* (a record is well formed when it is an object with string team names, a
\* start time that is absent, empty or ISO 8601, and bookmakers that are
\* objects whose markets are objects with outcomes that can be walked; an
\* empty value in place of a list holds nothing to walk)
WellFormedMarket(market) ==
    /\ market.type = "dict"
    /\ Get(market, "key", JNull).type \in {"null", "str", "num"}
    /\ Get(market, "outcomes", JList(<<>>)).type \in {"list", "str", "dict"}
WellFormedBookmaker(bookmaker) ==
    /\ bookmaker.type = "dict"
    /\ LET markets == Get(bookmaker, "markets", JList(<<>>))
       IN /\ markets.type = "list" \/ (markets.type \in {"str", "dict"} /\ ~Truthy(markets))
          /\ markets.type = "list" =>
                \A i \in 1..Len(markets.items) : WellFormedMarket(markets.items[i])
WellFormedEvent(event) ==
    /\ event.type = "dict"
    /\ Get(event, "home_team", JStr("Unknown")).type = "str"
    /\ Get(event, "away_team", JStr("Unknown")).type = "str"
    /\ LET commence_time == Get(event, "commence_time", JNull)
       IN \/ ~Truthy(commence_time)
          \/ /\ commence_time.type = "str"
             /\ IsIsoFormat(Replace(commence_time.v, "Z", "+00:00"))
    /\ LET bookmakers == Get(event, "bookmakers", JList(<<>>))
       IN /\ bookmakers.type = "list"
             \/ (bookmakers.type \in {"str", "dict"} /\ ~Truthy(bookmakers))
          /\ bookmakers.type = "list" =>
                \A i \in 1..Len(bookmakers.items) :
                    WellFormedBookmaker(bookmakers.items[i])
\* the Game of a well-formed record
GameOfEvent(event, sport) ==
    LET commence_time == Get(event, "commence_time", JNull)
    IN Game(sport,
            Get(event, "home_team", JStr("Unknown")).v,
            Get(event, "away_team", JStr("Unknown")).v,
            IF Truthy(commence_time)
            THEN <<Replace(commence_time.v, "Z", "+00:00")>> ELSE NoTime,
            _parse_bookmakers(Get(event, "bookmakers", JList(<<>>))).value)
RECURSIVE GamesOfWellFormed(_, _)
GamesOfWellFormed(events, sport) ==
    IF Len(events) = 0 THEN <<>>
    ELSE (IF WellFormedEvent(Head(events))
          THEN <<GameOfEvent(Head(events), sport)>> ELSE <<>>)
         \o GamesOfWellFormed(Tail(events), sport)
C14_MalformedRecordsSkipped ==
    Called("adapt_to_games") =>
        /\ libcall.result.raised = ""
        /\ libcall.result.value =
              IF libcall.args[1].type = "list"
              THEN GamesOfWellFormed(libcall.args[1].items, libcall.args[2])
              ELSE <<>>
        /\ \A shape \in {JStr("bad"), JNull, WithTime(JStr("tomorrow")),
                         WithBookmakers(JNull),
                         WithBookmakers(JList(<<JStr("DraftKings")>>))} :
              ~WellFormedEvent(shape)

C14_Witness ==
    /\ Called("adapt_to_games")
    /\ libcall.args[1] = JList(<<WithBookmakers(JNull), Event("Chiefs", "Ravens")>>)
    /\ Len(libcall.result.value) = 1
    /\ libcall.result.value[1].home_team = "Chiefs"
    /\ libcall.result.value[1].game_time = <<"2024-09-08T17:00:00+00:00">>
    /\ Len(libcall.result.value[1].odds) = 2

\* C15: _is_market_valid_for_sport gives, for every market key and every
\* sport, the verdict of the first rule of the fixed order that matches the
\* key, and valid when none matches; h2h_3_way is invalid for NFL and valid
\* for Soccer; for a key of the catalog every rule that matches gives the
\* verdict returned.
MarketRules ==
    <<[keys |-> {"h2h", "spreads", "totals"}, prefixes |-> {}, parts |-> {},
       sports |-> SportTypes],
      [keys |-> {"alternate_spreads", "alternate_totals", "alternate_team_totals"},
       prefixes |-> {}, parts |-> {}, sports |-> SportTypes],
      [keys |-> {"h2h_3_way", "btts", "draw_no_bet"}, prefixes |-> {},
       parts |-> {},
       sports |-> {"Soccer", "Premier League", "La Liga", "Champions League", "MLS"}],
      [keys |-> {}, prefixes |-> {"h2h_q", "spreads_q", "totals_q"}, parts |-> {},
       sports |-> {"NFL", "NCAAF", "NBA", "WNBA", "NCAAB"}],
      [keys |-> {}, prefixes |-> {"h2h_h", "spreads_h", "totals_h"}, parts |-> {},
       sports |-> SportTypes \ {"Soccer", "Premier League", "La Liga",
                                "Champions League", "MLS"}],
      [keys |-> {}, prefixes |-> {"h2h_p"}, parts |-> {}, sports |-> {"NHL"}],
      [keys |-> {}, prefixes |-> {}, parts |-> {"innings"}, sports |-> {"MLB"}],
      [keys |-> {}, prefixes |-> {"player_pass_", "player_rush_", "player_reception",
                                  "player_anytime_td"},
       parts |-> {}, sports |-> {"NFL", "NCAAF"}],
      [keys |-> {"player_points", "player_rebounds", "player_assists",
                 "player_threes", "player_blocks", "player_steals",
                 "player_double_double", "player_triple_double"},
       prefixes |-> {}, parts |-> {}, sports |-> {"NBA", "WNBA", "NCAAB"}],
      [keys |-> {}, prefixes |-> {"batter_", "pitcher_"}, parts |-> {},
       sports |-> {"MLB"}],
      [keys |-> {"player_goals", "player_anytime_goal_scorer",
                 "player_shots_on_goal"},
       prefixes |-> {}, parts |-> {}, sports |-> {"NHL"}]>>
RuleMatches(rule, market) ==
    \/ market \in rule.keys
    \/ StartsWithAny(market, rule.prefixes)
    \/ \E part \in rule.parts : Contains(market, part)
MatchingRules(market) ==
    {i \in 1..Len(MarketRules) : RuleMatches(MarketRules[i], market)}
FirstRuleVerdict(market, sport) ==
    IF MatchingRules(market) = {} THEN TRUE
    ELSE LET first == CHOOSE i \in MatchingRules(market) :
                          \A j \in MatchingRules(market) : i <= j
         IN sport \in MarketRules[first].sports
C15_FirstMatchingRuleDecides ==
    Called("_is_market_valid_for_sport") =>
        LET market == libcall.args[1]
            sport == libcall.args[2]
            valid == libcall.result.value
        IN /\ valid = FirstRuleVerdict(market, sport)
           /\ (market = "h2h_3_way" /\ sport = "NFL") => ~valid
           /\ (market = "h2h_3_way" /\ sport = "Soccer") => valid
           /\ (market \in UnknownMarkets) => valid
           /\ (market \in CatalogMarkets) =>
                 /\ MatchingRules(market) # {}
                 /\ \A i \in MatchingRules(market) :
                       valid = (sport \in MarketRules[i].sports)

C15_Witness ==
    /\ Called("_is_market_valid_for_sport")
    /\ libcall.args = <<"h2h_3_way", "NFL">>
    /\ libcall.result.value = FALSE

\* C16: bet_types_to_markets returns, joined by commas, the provider keys
\* of the bet types that are not client-side-only and are valid for the
\* sport, each once, in the order they are first seen, and
\* "h2h,spreads,totals" when there is none; the result is never empty and
\* every key in it is valid for the sport.
FirstComma(s) == CHOOSE i \in 1..Len(s) :
                    SubSeq(s, i, i) = "," /\ \A j \in 1..(i - 1) : SubSeq(s, j, j) # ","
RECURSIVE SplitComma(_)
SplitComma(s) ==
    IF ~Contains(s, ",") THEN <<s>>
    ELSE <<SubSeq(s, 1, FirstComma(s) - 1)>>
         \o SplitComma(SubSeq(s, FirstComma(s) + 1, Len(s)))
C16_MarketsOfBetTypes ==
    Called("bet_types_to_markets") =>
        LET bet_types == libcall.args[1]
            sport == libcall.args[2]
            keys == SplitComma(libcall.result.value)
            Wanted(i) ==
                /\ bet_types[i] \notin {"parlay", "teaser", "live", "over_under"}
                /\ bet_types[i] \in DOMAIN BET_TYPE_TO_API_MARKET
                /\ sport # NoSport =>
                      _is_market_valid_for_sport(BET_TYPE_TO_API_MARKET[bet_types[i]],
                                                 sport)
            wanted == {i \in 1..Len(bet_types) : Wanted(i)}
            FirstSeen(key) ==
                CHOOSE i \in wanted :
                    /\ BET_TYPE_TO_API_MARKET[bet_types[i]] = key
                    /\ \A j \in wanted :
                          BET_TYPE_TO_API_MARKET[bet_types[j]] = key => i <= j
        IN /\ libcall.result.value # ""
           /\ (wanted = {}) => libcall.result.value = "h2h,spreads,totals"
           /\ (wanted # {}) =>
                 /\ {keys[i] : i \in 1..Len(keys)}
                       = {BET_TYPE_TO_API_MARKET[bet_types[i]] : i \in wanted}
                 /\ \A i, j \in 1..Len(keys) :
                       i < j => (/\ keys[i] # keys[j]
                                 /\ FirstSeen(keys[i]) < FirstSeen(keys[j]))
           /\ (sport # NoSport) =>
                 \A i \in 1..Len(keys) : _is_market_valid_for_sport(keys[i], sport)

C16_Witness ==
    /\ Called("bet_types_to_markets")
    /\ \/ /\ libcall.args = <<<<"parlay">>, "NFL">>
          /\ libcall.result.value = "h2h,spreads,totals"
       \/ /\ libcall.args = <<<<"totals", "moneyline">>, "NFL">>
          /\ libcall.result.value = "totals,h2h"

\* C17: in get_games_with_odds(sports, bet_types = B) with a non-empty B
\* the request for each sport carries, in its markets parameter and in its
\* cache key, bet_types_to_markets(B, s) of that very sport.
C17_MarketsComputedPerSport ==
    (/\ batch.active
     /\ Len(batch.bet_types) > 0
     /\ call.op = "get_odds"
     /\ call.sport \in DOMAIN SPORT_KEYS)
    => /\ call.sport = batch.sports[batch.i]
       /\ call.key = cache_key(SPORT_KEYS[call.sport], "us",
                               bet_types_to_markets(batch.bet_types, call.sport),
                               "american")

C17_Witness ==
    /\ batch.active
    /\ batch.bet_types = <<"moneyline", "h2h_3_way", "parlay">>
    /\ batch.sports = <<"Soccer", "NFL">>
    /\ Returned
    /\ call.sport = "NFL"
    /\ call.key = "americanfootball_nfl:us:h2h:american"
    /\ "soccer_epl:us:h2h,h2h_3_way:american" \in DOMAIN _cache

\* C18: for a non-empty list of parseable American odds, calculate_parlay_odds
\* turns each leg into decimal odds (1 + v/100 for v >= 0, 1 + 100/|v| for
\* v < 0), multiplies them into d and returns "+" and (d-1)*100 rounded to
\* the nearest integer when d >= 2, -100/(d-1) rounded to the nearest
\* integer otherwise.
CleanLeg(odd_str) == Replace(Strip(odd_str), "+", "")
\* a leg that is a whole number of at most four digits
OrdinaryLeg(odd_str) ==
    IsInt(CleanLeg(odd_str)) /\ Len(Unsigned(CleanLeg(odd_str))) <= 4
DecimalOfLeg(v) ==
    IF v >= 0 THEN Frac(100 + v, 100) ELSE Frac(Abs(v) + 100, Abs(v))
RECURSIVE DecimalOfLegs(_)
DecimalOfLegs(selections) ==
    IF Len(selections) = 0 THEN Frac(1, 1)
    ELSE Times(DecimalOfLeg(IntOf(CleanLeg(Head(selections)))),
               DecimalOfLegs(Tail(selections)))
\* n / d rounded to the nearest integer, n / d > 0
Nearest(n, d) == (2 * n + d) \div (2 * d)
C18_ParlayRoundedToNearest ==
    (/\ Called("calculate_parlay_odds")
     /\ Len(libcall.args[1]) > 0
     /\ \A i \in 1..Len(libcall.args[1]) : OrdinaryLeg(libcall.args[1][i]))
    => LET d == DecimalOfLegs(libcall.args[1])
       IN (d[1] # d[2]) =>
             libcall.result =
                Returns(IF d[1] >= 2 * d[2]
                        THEN "+" \o ToString(Nearest(100 * (d[1] - d[2]), d[2]))
                        ELSE ToString(0 - Nearest(100 * d[2], d[1] - d[2])))

\* C19: calculate_parlay_odds never raises; its result is its result on
\* the legs that parse; it is "+100" for a list without a leg that parses.
LegParses(odd_str) == IsInt(CleanLeg(odd_str))
C19_ParlayNeverRaises ==
    Called("calculate_parlay_odds") =>
        /\ libcall.result.raised = ""
        /\ libcall.result =
              calculate_parlay_odds(SelectSeq(libcall.args[1], LegParses))
        /\ (SelectSeq(libcall.args[1], LegParses) = <<>>)
              => libcall.result.value = "+100"

\* C20: find_best_odds returns, for a non-empty list, an entry of the list:
\* with maximize one whose numeric value is the greatest, without it one
\* whose absolute numeric value is the smallest; for an empty list it
\* returns None and does not raise.
C20_BestOddsSelected ==
    Called("find_best_odds") =>
        LET odds_list == libcall.args[1]
            maximize == libcall.args[2]
            best == libcall.result.value
            v(entry) == calculate_odds_value(entry.odds)
        IN /\ libcall.result.raised = ""
           /\ (Len(odds_list) = 0) => best = <<>>
           /\ (Len(odds_list) > 0) =>
                 /\ Len(best) = 1
                 /\ \E i \in 1..Len(odds_list) : odds_list[i] = best[1]
                 /\ \A i \in 1..Len(odds_list) :
                       IF maximize THEN v(odds_list[i]) <= v(best[1])
                       ELSE Abs(v(best[1])) <= Abs(v(odds_list[i]))

C20_Witness ==
    /\ Called("find_best_odds")
    /\ libcall.args = <<<<OddsData("DraftKings", "moneyline", "-150", NoLine),
                          OddsData("FanDuel", "moneyline", "-120", NoLine)>>, FALSE>>
    /\ libcall.result.value = <<OddsData("FanDuel", "moneyline", "-120", NoLine)>>

\* C21: the client takes api_key, timeout, max_retries and the cache
\* duration from the configuration at construction: with a configured
\* CACHE_DURATION of m minutes get_odds serves a stored response only while
\* it is younger than m minutes, and serves it whenever it is.
C21_ConfiguredCacheDuration ==
    /\ api_key = config.odds_api_key
    /\ max_retries = config.max_retries
    /\ (Returned /\ call.op = "get_odds" /\ ret.success /\ Len(phys) = 0) =>
          /\ call.key \in DOMAIN fetched
          /\ call.t0 - fetched[call.key].time < config.cache_duration * 60
    /\ (/\ Returned
        /\ call.op = "get_odds"
        /\ call.key \in DOMAIN fetched
        /\ call.t0 - fetched[call.key].time < config.cache_duration * 60)
       => (Len(phys) = 0 /\ ret = fetched[call.key].response)

\* C22: register_adapter(name, type) raises an error for every type that
\* does not inherit from DataAdapter, and a call that raises leaves the
\* registry as it was: every registered name keeps its class and no name
\* resolves to the rejected type.
C22_RejectedRegistrationChangesNothing ==
    [][(libcall.fn = "register_adapter" /\ ~libcall.done /\ libcall'.done) =>
          /\ (libcall.args[2] \notin DataAdapterClasses)
                => libcall'.result.raised \in {"ValueError", "TypeError"}
          /\ (libcall'.result.raised # "") =>
                /\ libcall.args[2] \notin DataAdapterClasses
                /\ DOMAIN _adapters' = DOMAIN _adapters
                /\ \A name \in DOMAIN _adapters :
                      /\ _adapters'[name] = _adapters[name]
                      /\ _adapters'[name] # libcall.args[2]]_vars

C22_Witness ==
    /\ Called("register_adapter")
    /\ libcall.args = <<"mine", "dict">>
    /\ libcall.result.raised = "ValueError"
    /\ DOMAIN _adapters = DOMAIN RegisteredAdapters \cup {"mine"}
    /\ _adapters["mine"] = "MyAdapter"

\* an odds string that is a signed number or EVEN / EV
ValidOdds(odds) ==
    \/ Upper(Strip(odds)) \in {"EVEN", "EV"}
    \/ IsFloat(Replace(Upper(Strip(odds)), "+", ""))

\* C23: calculate_implied_probability returns None for an odds string that
\* is neither a signed number nor EVEN / EV (such as "N/A"), and a
\* percentage only for valid American odds.
C23_InvalidOddsHaveNoProbability ==
    Called("calculate_implied_probability") =>
        /\ libcall.result.raised = ""
        /\ (libcall.result.value = <<>>) <=> ~ValidOdds(libcall.args[1])

\* C24: every request terminates: whatever the provider answers,
\* _make_request returns a success or a failure after at most max_retries
\* physical calls, and _request_count grows by one with each physical call
\* and with nothing else.
\* (a request is followed to its end when the cap on _request_count leaves
\* room for all its calls)
C24_EveryRequestTerminates ==
    /\ [](Len(phys) <= max_retries)
    /\ [](Returned => (ret.success \/ ret.error # NoError))
    /\ [][/\ _request_count' \in {_request_count, _request_count + 1}
          /\ (_request_count' = _request_count + 1)
                <=> (Len(phys') = Len(phys) + 1 /\ pc' = "inflight")]_vars
    /\ (InRequest /\ _request_count - Len(phys) + max_retries <= MaxRequests)
          ~> Returned

C24_Witness ==
    /\ Returned
    /\ max_retries = MaxRetriesCfg
    /\ Len(phys) = max_retries
    /\ _request_count = max_retries
    /\ ~ret.success
    /\ \E i, j \in 1..Len(phys) : phys[i].answer = "429" /\ phys[j].answer = "timeout"

\* the outcomes of a bookmaker list in payload order, each with the title of
\* its bookmaker and the key of its market
RECURSIVE Flatten(_)
Flatten(seqs) == IF Len(seqs) = 0 THEN <<>> ELSE Head(seqs) \o Flatten(Tail(seqs))
OutcomesInOrder(bookmakers) ==
    Flatten([b \in 1..Len(bookmakers.items) |->
        LET bookmaker == bookmakers.items[b].fields
        IN Flatten([m \in 1..Len(bookmaker.markets.items) |->
               LET market == bookmaker.markets.items[m].fields
               IN [o \in 1..Len(market.outcomes.items) |->
                      [title |-> bookmaker.title.v, key |-> market.key.v,
                       outcome |-> market.outcomes.items[o].fields]]])])
\* _parse_bookmakers has returned for a list of bookmakers
ParsedBookmakers ==
    Called("_parse_bookmakers") /\ libcall.args[1].type = "list"

\* C25: for every outcome of every market of every bookmaker of a
\* well-formed event the adapter builds exactly one Odds entry, in payload
\* order; its bet type is the catalog's for the market key, moneyline for
\* an unrecognized key; its price is the string of the outcome's price,
\* "N/A" when the outcome has no price (the key is missing or its value is
\* null).
C25_OneEntryPerOutcome ==
    ParsedBookmakers =>
        LET outcomes == OutcomesInOrder(libcall.args[1])
            entries == libcall.result.value
        IN /\ libcall.result.raised = ""
           /\ Len(entries) = Len(outcomes)
           /\ \A i \in 1..Len(outcomes) :
                 /\ entries[i].sportsbook = outcomes[i].title
                 /\ entries[i].bet_type =
                       IF outcomes[i].key \in DOMAIN MARKET_TO_BET_TYPE
                       THEN MARKET_TO_BET_TYPE[outcomes[i].key] ELSE "moneyline"
                 /\ entries[i].odds =
                       IF "price" \in DOMAIN outcomes[i].outcome
                          /\ outcomes[i].outcome.price # JNull
                       THEN outcomes[i].outcome.price.v ELSE "N/A"

\* C29: the Odds entry of an outcome that carries a point value (0
\* included) has the string of that value as its line; the line is absent
\* only when the outcome has no point value.
C29_LineOfEveryPoint ==
    ParsedBookmakers =>
        LET outcomes == OutcomesInOrder(libcall.args[1])
            entries == libcall.result.value
        IN /\ Len(entries) = Len(outcomes)
           /\ \A i \in 1..Len(outcomes) :
                 entries[i].line =
                    IF "point" \in DOMAIN outcomes[i].outcome
                    THEN <<outcomes[i].outcome.point.v>> ELSE NoLine

\* C26: the win-loss summary of a competitor is split at its first hyphen
\* into two parts: when both are integers, wins and losses are these; when
\* one is not (as in "10-x", or in "10-5-2" whose second part is "5-2"),
\* wins and losses are both absent; no error is raised.
C26_WinLossSplitAtFirstHyphen ==
    (/\ Called("_parse_team_stats")
     /\ "records" \in DOMAIN libcall.args[1].fields
     /\ "summary" \in DOMAIN libcall.args[1].fields.records.items[1].fields
     /\ libcall.args[1].fields.records.items[1].fields.summary.type = "str")
    => LET summary == libcall.args[1].fields.records.items[1].fields.summary.v
           hyphens == {i \in 1..Len(summary) : SubSeq(summary, i, i) = "-"}
           first == CHOOSE i \in hyphens : \A j \in hyphens : i <= j
           stats == libcall.result.value
       IN /\ libcall.result.raised = ""
          /\ IF /\ hyphens # {}
                /\ IsInt(SubSeq(summary, 1, first - 1))
                /\ IsInt(SubSeq(summary, first + 1, Len(summary)))
             THEN /\ stats.wins = <<IntOf(SubSeq(summary, 1, first - 1))>>
                  /\ stats.losses = <<IntOf(SubSeq(summary, first + 1, Len(summary)))>>
             ELSE stats.wins = <<>> /\ stats.losses = <<>>

\* C27: _make_request returns "Failed after N attempts" (N = max_retries)
\* only when the request made exactly N physical calls and none of them
\* succeeded; a request stopped earlier does not report N attempts.
C27_FailedAfterCountsCalls ==
    (/\ Returned
     /\ call.op # "none"
     /\ ~ret.success
     /\ ret.error = FailedAfterError(max_retries))
    => /\ Len(phys) = max_retries
       /\ \A i \in 1..Len(phys) : phys[i].answer # "200"

\* C28: after a successful register_adapter(name, T), for every name
\* (upper-case letters included), get_adapter(name) returns an instance of
\* T, until another registration under the same name.
\* (a name of the registry that the class does not ship with has been
\* registered, and _adapters holds the class of its last registration)
C28_RegisteredNameResolves ==
    (/\ Called("get_adapter")
     /\ libcall.args[1] \in DOMAIN _adapters
     /\ libcall.args[1] \notin DOMAIN RegisteredAdapters
     /\ libcall.args[2] = {})
    => libcall.result = Returns(_adapters[libcall.args[1]])

\* C30: from a list of odds entries with at least one price that parses,
\* find_best_odds (with either value of maximize) never returns an entry
\* whose price does not parse (such as "N/A"), and neither does
\* get_best_odds_per_bet_type for a bet type that has a price that parses.
C30_UnparseableNeverBest ==
    /\ (/\ Called("find_best_odds")
        /\ \E i \in 1..Len(libcall.args[1]) : ValidOdds(libcall.args[1][i].odds))
       => /\ Len(libcall.result.value) = 1
          /\ ValidOdds(libcall.result.value[1].odds)
    /\ Called("get_best_odds_per_bet_type") =>
          LET odds == libcall.args[1].odds
              best == libcall.result.value
          IN \A bet_type \in DOMAIN best :
                (\E i \in 1..Len(odds) :
                    odds[i].bet_type = bet_type /\ ValidOdds(odds[i].odds))
                => ValidOdds(best[bet_type].odds)

====
